---- MODULE Spec2Model ----
(***************************************************************************)
(* A model of the news crawler's ingestion pipeline: the canonicalizer     *)
(* (backend/text_utils.py), the bulk upsert of backend/app.py, the         *)
(* enrichment task (tasks/fetch_article.py) and the resilient fetcher and  *)
(* feed parser (crawler/fetch_feeds.py).                                   *)
(*                                                                         *)
(* Python strings are sequences of one-character strings, so that strip,   *)
(* lower, substring search and URL splitting are computed as the code      *)
(* computes them; a CJK character is written as its code point, "U+65B0".  *)
(* Python's None is the value None below.                                  *)
(***************************************************************************)
EXTENDS Integers, Sequences, FiniteSets, TLC

VARIABLES
    articles,   \* the committed rows of table "articles", in id order
    sess,       \* per worker: the SQLAlchemy session of the request it runs
    resp,       \* per worker: what its last request returned to the caller
    log,        \* the finished requests with their answers, in order of completion
    calls,      \* number of requests started so far
    FAILED,     \* crawler/fetch_feeds.py FAILED, the process-wide failure list
    pf,         \* the parse_feed call in progress (or finished)
    fetches,    \* number of _fetch_content calls started so far
    tasks,      \* the Celery tasks sent so far, by task id
    queue,      \* the task messages waiting for a worker
    cycle,      \* the schedule_feeds run in progress (or finished)
    raising,    \* the urls whose task raises on every execution
    norm,       \* a url with what the url functions have returned for it
    ml,         \* the learned classifier of the process and the calls made to it
    labels,     \* a text with what classify_categories has returned for it
    run         \* the crawl run of the scheduled crawler in progress (or finished)

vars == <<articles, sess, resp, log, calls, FAILED, pf, fetches,
          tasks, queue, cycle, raising, norm, ml, labels, run>>

\* the state of the store and the crawler, and the state of the task queue
storeVars == <<articles, sess, resp, log, calls, FAILED, pf, fetches>>

taskVars == <<tasks, queue, cycle, raising>>

(***************************************************************************)
(* Python values                                                           *)
(***************************************************************************)
None == <<"None">>

\* Python truthiness of an Optional[str]
Truthy(s) == s # None /\ s # <<>>

\* Python's `a or b` on Optional[str]
Or(a, b) == IF Truthy(a) THEN a ELSE b

\* The characters of the model in code-point order (the order sorted() uses)
Alphabet ==
    <<"\t", "\n", " ", "#", "%", "&", "+", "-", ".", "/",
      "0", "1", "2", "3", "4", "5", "6", "7", "8", "9",
      ":", "=", "?", "@",
      "A", "B", "C", "D", "E", "F", "G", "H", "I", "J", "K", "L", "M",
      "N", "O", "P", "Q", "R", "S", "T", "U", "V", "W", "X", "Y", "Z",
      "_",
      "a", "b", "c", "d", "e", "f", "g", "h", "i", "j", "k", "l", "m",
      "n", "o", "p", "q", "r", "s", "t", "u", "v", "w", "x", "y", "z">>

UpperCase == <<"A", "B", "C", "D", "E", "F", "G", "H", "I", "J", "K", "L", "M",
               "N", "O", "P", "Q", "R", "S", "T", "U", "V", "W", "X", "Y", "Z">>

LowerCase == <<"a", "b", "c", "d", "e", "f", "g", "h", "i", "j", "k", "l", "m",
               "n", "o", "p", "q", "r", "s", "t", "u", "v", "w", "x", "y", "z">>

Digits == {"0", "1", "2", "3", "4", "5", "6", "7", "8", "9"}

Range(s) == {s[i] : i \in 1..Len(s)}

\* s[a-1:b] of Python: the characters at positions a..b (1-based), clipped
\* to the string as Python's slices are
Slice(s, a, b) ==
    LET lo == IF a < 1 THEN 1 ELSE a
        hi == IF b > Len(s) THEN Len(s) ELSE b
    IN  [i \in 1..(hi - lo + 1) |-> s[lo + i - 1]]

SetMin(S) == CHOOSE x \in S : \A y \in S : x <= y

SetMax(S) == CHOOSE x \in S : \A y \in S : x >= y

\* ord(c): the position of c in code-point order (characters outside the
\* ASCII part of Alphabet, the CJK ones, sort after it)
Ord(c) ==
    IF \E i \in 1..Len(Alphabet) : Alphabet[i] = c
    THEN CHOOSE i \in 1..Len(Alphabet) : Alphabet[i] = c
    ELSE Len(Alphabet) + 1

\* str.lower() on one character, then on a string
LowerChar(c) ==
    IF \E i \in 1..Len(UpperCase) : UpperCase[i] = c
    THEN LowerCase[CHOOSE i \in 1..Len(UpperCase) : UpperCase[i] = c]
    ELSE c

lower(s) == [i \in 1..Len(s) |-> LowerChar(s[i])]

IsSpace(c) == c \in {" ", "\t", "\n"}

\* str.strip()
strip(s) ==
    LET keep == {i \in 1..Len(s) : ~IsSpace(s[i])}
    IN  IF keep = {} THEN <<>> ELSE Slice(s, SetMin(keep), SetMax(keep))

\* str.rstrip(ch): every trailing ch is removed
rstrip(s, ch) ==
    LET keep == {i \in 1..Len(s) : s[i] # ch}
    IN  IF keep = {} THEN <<>> ELSE Slice(s, 1, SetMax(keep))

\* s[i:] and s[:i] with Python's 0-based index i
From(s, i) == Slice(s, i + 1, Len(s))

Upto(s, i) == Slice(s, 1, i)

\* str.find(sub) with 0-based result, -1 when absent
find(s, sub) ==
    LET at == {i \in 0..(Len(s) - Len(sub)) : Slice(s, i + 1, i + Len(sub)) = sub}
    IN  IF at = {} THEN -1 ELSE SetMin(at)

\* str.rfind(sub)
rfind(s, sub) ==
    LET at == {i \in 0..(Len(s) - Len(sub)) : Slice(s, i + 1, i + Len(sub)) = sub}
    IN  IF at = {} THEN -1 ELSE SetMax(at)

\* `sub in s`
Contains(s, sub) == find(s, sub) >= 0

startswith(s, p) == Len(p) <= Len(s) /\ Slice(s, 1, Len(p)) = p

endswith(s, p) == Len(p) <= Len(s) /\ Slice(s, Len(s) - Len(p) + 1, Len(s)) = p

\* str.split(sep) for a one-character sep: a sequence of strings
RECURSIVE split(_, _)
split(s, sep) ==
    LET i == find(s, <<sep>>)
    IN  IF i < 0 THEN <<s>> ELSE <<Upto(s, i)>> \o split(From(s, i + 1), sep)

\* sep.join(parts)
RECURSIVE join(_, _)
join(sep, parts) ==
    IF parts = <<>> THEN <<>>
    ELSE IF Len(parts) = 1 THEN parts[1]
    ELSE parts[1] \o sep \o join(sep, Tail(parts))

\* a < b in Python's string order
RECURSIVE LexLess(_, _)
LexLess(a, b) ==
    IF b = <<>> THEN FALSE
    ELSE IF a = <<>> THEN TRUE
    ELSE IF Ord(a[1]) # Ord(b[1]) THEN Ord(a[1]) < Ord(b[1])
    ELSE LexLess(Tail(a), Tail(b))

\* sorted(S) for a set S of strings
RECURSIVE sorted(_)
sorted(S) ==
    IF S = {} THEN <<>>
    ELSE LET m == CHOOSE x \in S : \A y \in S \ {x} : LexLess(x, y)
         IN  <<m>> \o sorted(S \ {m})

(***************************************************************************)
(* urllib.parse, as backend/text_utils.py uses it.  URLs of the model are   *)
(* strings over Alphabet: no IPv6 brackets and no control characters, so   *)
(* urlsplit raises nothing on them.                                        *)
(***************************************************************************)
\* "%XX" of each character of Alphabet, in the order of Alphabet
HexCode ==
    <<<<"0", "9">>, <<"0", "A">>, <<"2", "0">>, <<"2", "3">>, <<"2", "5">>, <<"2", "6">>,
      <<"2", "B">>, <<"2", "D">>, <<"2", "E">>, <<"2", "F">>, <<"3", "0">>, <<"3", "1">>,
      <<"3", "2">>, <<"3", "3">>, <<"3", "4">>, <<"3", "5">>, <<"3", "6">>, <<"3", "7">>,
      <<"3", "8">>, <<"3", "9">>, <<"3", "A">>, <<"3", "D">>, <<"3", "F">>, <<"4", "0">>,
      <<"4", "1">>, <<"4", "2">>, <<"4", "3">>, <<"4", "4">>, <<"4", "5">>, <<"4", "6">>,
      <<"4", "7">>, <<"4", "8">>, <<"4", "9">>, <<"4", "A">>, <<"4", "B">>, <<"4", "C">>,
      <<"4", "D">>, <<"4", "E">>, <<"4", "F">>, <<"5", "0">>, <<"5", "1">>, <<"5", "2">>,
      <<"5", "3">>, <<"5", "4">>, <<"5", "5">>, <<"5", "6">>, <<"5", "7">>, <<"5", "8">>,
      <<"5", "9">>, <<"5", "A">>, <<"5", "F">>, <<"6", "1">>, <<"6", "2">>, <<"6", "3">>,
      <<"6", "4">>, <<"6", "5">>, <<"6", "6">>, <<"6", "7">>, <<"6", "8">>, <<"6", "9">>,
      <<"6", "A">>, <<"6", "B">>, <<"6", "C">>, <<"6", "D">>, <<"6", "E">>, <<"6", "F">>,
      <<"7", "0">>, <<"7", "1">>, <<"7", "2">>, <<"7", "3">>, <<"7", "4">>, <<"7", "5">>,
      <<"7", "6">>, <<"7", "7">>, <<"7", "8">>, <<"7", "9">>, <<"7", "A">>>>

\* urllib.parse.scheme_chars
scheme_chars == Range(UpperCase) \cup Range(LowerCase) \cup Digits \cup {"+", "-", "."}

IsAlpha(c) == c \in Range(UpperCase) \cup Range(LowerCase)

\* urllib.parse.uses_netloc, the schemes of it the model's URLs can carry
uses_netloc == {<<>>, <<"h", "t", "t", "p">>, <<"h", "t", "t", "p", "s">>, <<"f", "t", "p">>}

\* urllib.parse._splitnetloc(url, 2): the end of the domain part
netloc_end(url) ==
    LET ds == {i \in 2..(Len(url) - 1) : url[i + 1] \in {"/", "?", "#"}}
    IN  IF ds = {} THEN Len(url) ELSE SetMin(ds)

\* s.partition(sep): the part before the first sep (all of s when there is
\* none) and the part after it
before(s, sep) == IF find(s, sep) >= 0 THEN Upto(s, find(s, sep)) ELSE s

after(s, sep) == IF find(s, sep) >= 0 THEN From(s, find(s, sep) + 1) ELSE <<>>

\* urlsplit, last step: the query is split off what is left
urlsplit_query(scheme, netloc, rest, fragment) ==
    [scheme |-> scheme, netloc |-> netloc, path |-> before(rest, <<"?">>),
     query |-> after(rest, <<"?">>), fragment |-> fragment]

\* urlsplit after the scheme: "//" introduces the netloc, "#" the fragment
urlsplit_netloc(scheme, rest) ==
    IF Upto(rest, 2) = <<"/", "/">>
    THEN urlsplit_query(scheme, Slice(rest, 3, netloc_end(rest)),
                        before(From(rest, netloc_end(rest)), <<"#">>),
                        after(From(rest, netloc_end(rest)), <<"#">>))
    ELSE urlsplit_query(scheme, <<>>, before(rest, <<"#">>), after(rest, <<"#">>))

\* url[:i] is a scheme: it starts with a letter and has scheme characters only
has_scheme(url, i) ==
    /\ i > 0
    /\ IsAlpha(url[1])
    /\ \A k \in 1..i : url[k] \in scheme_chars

\* urllib.parse.urlsplit(url): [scheme, netloc, path, query, fragment]
urlsplit(url) ==
    IF has_scheme(url, find(url, <<":">>))
    THEN urlsplit_netloc(lower(before(url, <<":">>)), after(url, <<":">>))
    ELSE urlsplit_netloc(<<>>, url)

\* urllib.parse.urlunsplit((scheme, netloc, path, query, fragment))
urlunsplit(scheme, netloc, path, query, fragment) ==
    LET withNet == \/ netloc # <<>>
                   \/ (scheme # <<>> /\ scheme \in uses_netloc
                       /\ Upto(path, 2) # <<"/", "/">>)
        p1 == IF withNet /\ path # <<>> /\ path[1] # "/" THEN <<"/">> \o path ELSE path
        u1 == IF withNet THEN <<"/", "/">> \o netloc \o p1 ELSE path
        u2 == IF scheme # <<>> THEN scheme \o <<":">> \o u1 ELSE u1
        u3 == IF query # <<>> THEN u2 \o <<"?">> \o query ELSE u2
    IN  IF fragment # <<>> THEN u3 \o <<"#">> \o fragment ELSE u3

IsHex(c) == c \in Digits \cup {"A", "B", "C", "D", "E", "F", "a", "b", "c", "d", "e", "f"}

UpperChar(c) ==
    IF \E i \in 1..Len(LowerCase) : LowerCase[i] = c
    THEN UpperCase[CHOOSE i \in 1..Len(LowerCase) : LowerCase[i] = c]
    ELSE c

\* urllib.parse.unquote: %XX of a character of Alphabet is decoded, any other
\* "%" stays
RECURSIVE unquote(_)
unquote(s) ==
    IF s = <<>> THEN <<>>
    ELSE IF /\ s[1] = "%"
            /\ Len(s) >= 3
            /\ \E k \in 1..Len(Alphabet) : HexCode[k] = <<UpperChar(s[2]), UpperChar(s[3])>>
         THEN <<Alphabet[CHOOSE k \in 1..Len(Alphabet) :
                             HexCode[k] = <<UpperChar(s[2]), UpperChar(s[3])>>]>>
              \o unquote(From(s, 3))
         ELSE <<s[1]>> \o unquote(Tail(s))

\* str.replace('+', ' ')
plus_to_space(s) == [i \in 1..Len(s) |-> IF s[i] = "+" THEN " " ELSE s[i]]

\* urllib.parse.quote_plus: letters, digits and "_.-~" stay, a space becomes
\* "+", every other character becomes %XX
RECURSIVE quote_plus(_)
quote_plus(s) ==
    IF s = <<>> THEN <<>>
    ELSE LET c == s[1]
             e == IF IsAlpha(c) \/ c \in Digits \/ c \in {"_", ".", "-"} THEN <<c>>
                  ELSE IF c = " " THEN <<"+">>
                  ELSE IF Ord(c) <= Len(Alphabet) THEN <<"%">> \o HexCode[Ord(c)]
                  ELSE <<c>>
         IN  e \o quote_plus(Tail(s))

\* urllib.parse.parse_qsl(qs, keep_blank_values=True): a sequence of <<key, value>>
RECURSIVE parse_pairs(_)
parse_pairs(fields) ==
    IF fields = <<>> THEN <<>>
    ELSE LET nv == fields[1]
             e  == find(nv, <<"=">>)
             k  == IF e >= 0 THEN Upto(nv, e) ELSE nv
             v  == IF e >= 0 THEN From(nv, e + 1) ELSE <<>>
         IN  (IF nv = <<>> THEN <<>>
              ELSE << <<unquote(plus_to_space(k)), unquote(plus_to_space(v))>> >>)
             \o parse_pairs(Tail(fields))

parse_qsl(qs) == parse_pairs(split(qs, "&"))

\* urllib.parse.urlencode(q) of a sequence of pairs
urlencode(q) ==
    join(<<"&">>, [i \in 1..Len(q) |-> quote_plus(q[i][1]) \o <<"=">> \o quote_plus(q[i][2])])

\* list.sort() of pairs of strings: by key, then by value; equal pairs stay
PairLess(a, b) == LexLess(a[1], b[1]) \/ (a[1] = b[1] /\ LexLess(a[2], b[2]))

RECURSIVE sort_pairs(_)
sort_pairs(q) ==
    IF q = <<>> THEN <<>>
    ELSE LET m   == CHOOSE i \in 1..Len(q) :
                        /\ \A j \in 1..Len(q) : ~PairLess(q[j], q[i])
                        /\ \A j \in 1..(i - 1) : q[j] # q[i]
             rest == [j \in 1..(Len(q) - 1) |-> IF j < m THEN q[j] ELSE q[j + 1]]
         IN  <<q[m]>> \o sort_pairs(rest)

\* the tracking-parameter prefixes canonicalize_url drops
TrackingPrefixes == {<<"u", "t", "m", "_">>, <<"f", "b", "c", "l", "i", "d">>, <<"g", "c", "l", "i", "d">>}

IsTracking(kv) == \E p \in TrackingPrefixes : startswith(lower(kv[1]), p)

NotTracking(kv) == ~IsTracking(kv)

\* canonicalize_url without q.sort()
canonical_of_unsorted(u) ==
    urlunsplit(u.scheme, lower(u.netloc), rstrip(u.path, "/"),
               urlencode(SelectSeq(parse_qsl(u.query), NotTracking)),
               <<>>)

\* canonicalize_url after urlsplit: u is the SplitResult
canonical_of(u) ==
    urlunsplit(u.scheme, lower(u.netloc), rstrip(u.path, "/"),
               urlencode(sort_pairs(SelectSeq(parse_qsl(u.query), NotTracking))),
               <<>>)

\* backend/text_utils.py canonicalize_url
canonicalize_url(url) == canonical_of(urlsplit(url))

\* backend/text_utils.py url_hash: the first 32 hex digits of SHA-256, written
\* symbolically (the digest is taken to be collision-free on the model's URLs)
url_hash(url) == <<"sha256">> \o url

\* re.sub(r"\s+", " ", s): every run of whitespace becomes one space
RECURSIVE collapse_ws(_)
collapse_ws(s) ==
    IF s = <<>> THEN <<>>
    ELSE IF IsSpace(s[1])
         THEN IF Len(s) >= 2 /\ IsSpace(s[2]) THEN collapse_ws(Tail(s))
              ELSE <<" ">> \o collapse_ws(Tail(s))
         ELSE <<s[1]>> \o collapse_ws(Tail(s))

\* backend/text_utils.py normalize_source
normalize_source(name) ==
    IF ~Truthy(name) THEN name ELSE lower(collapse_ws(strip(name)))

\* SplitResult.hostname: the netloc without userinfo and port, lowercased;
\* <<>> when there is none (the code's `hostname or ''`)
hostname(url) ==
    lower(before(From(urlsplit(url).netloc, rfind(urlsplit(url).netloc, <<"@">>) + 1),
                 <<":">>))

\* infer_country_from_url's suffix_map, in the dict's order
suffix_map ==
    << <<<<".", "c", "o", "m", ".", "h", "k">>, <<"h", "k">>>>,
       <<<<".", "o", "r", "g", ".", "h", "k">>, <<"h", "k">>>>,
       <<<<".", "g", "o", "v", ".", "h", "k">>, <<"h", "k">>>>,
       <<<<".", "c", "o", ".", "u", "k">>, <<"g", "b">>>>,
       <<<<".", "c", "o", "m", ".", "a", "u">>, <<"a", "u">>>>,
       <<<<".", "c", "o", "m", ".", "s", "g">>, <<"s", "g">>>>,
       <<<<".", "c", "o", ".", "j", "p">>, <<"j", "p">>>>,
       <<<<".", "c", "o", "m", ".", "t", "w">>, <<"t", "w">>>>,
       <<<<".", "c", "o", "m", ".", "c", "n">>, <<"c", "n">>>> >>

\* infer_country_from_url's tld_map: every key maps to itself but uk -> gb
tld_keys ==
    {<<"h", "k">>, <<"u", "k">>, <<"u", "s">>, <<"c", "n">>, <<"j", "p">>, <<"k", "r">>, <<"s", "g">>, <<"t", "w">>, <<"m", "y">>, <<"t", "h">>, <<"v", "n">>, <<"p", "h">>, <<"i", "d">>, <<"a", "u">>, <<"c", "a">>, <<"d", "e">>, <<"f", "r">>, <<"i", "t">>, <<"e", "s">>, <<"g", "b">>}

\* a TLD table that answers with the label itself
tld_map_any(t) == t

tld_map(t) == IF t = <<"u", "k">> THEN <<"g", "b">> ELSE IF t \in tld_keys THEN t ELSE None

\* infer_country_from_url on the lowercased host: the first suffix of
\* suffix_map the host ends with, else the last label looked up in tld_map
country_of_host(host) ==
    LET hits == {i \in 1..Len(suffix_map) : endswith(host, suffix_map[i][1])}
    IN  IF hits # {} THEN suffix_map[SetMin(hits)][2]
        ELSE IF rfind(host, <<".">>) >= 0
        THEN tld_map(From(host, rfind(host, <<".">>) + 1))
        ELSE None

\* backend/text_utils.py infer_country_from_url
infer_country_from_url(url) ==
    IF ~Truthy(url) THEN None ELSE country_of_host(hostname(url))

\* the prefix of the text langid sees (text[:4000])
LangidPrefix == 4000

\* langid.classify, an external statistical classifier: a fixed function of
\* the text, here one that tells text with CJK characters from the rest
langid_classify(text) ==
    IF \E i \in 1..Len(text) : Ord(text[i]) > Len(Alphabet)
    THEN <<"z", "h">> ELSE <<"e", "n">>

\* backend/text_utils.py detect_lang
detect_lang(text) == langid_classify(Slice(text, 1, LangidPrefix))

\* backend/text_utils.py simhash_text rendered as hex (f"{simhash_text(c):x}"):
\* a fixed function of the text, written symbolically
simhash_hex(text) == <<"simhash">> \o text

\* datetime.fromisoformat(raw.replace("Z", "+00:00")).replace(tzinfo=None):
\* the timestamps the model's items carry; anything else raises, which the
\* handler turns into None
IsoTimestamps == {<<"2024-01-01T00:00:00">>, <<"2024-02-02T00:00:00">>}

fromisoformat(raw) == IF raw \in IsoTimestamps THEN raw ELSE None

(***************************************************************************)
(* The table "articles" (backend/models.py Article) and the SQLAlchemy     *)
(* session of a request (backend/db.py SessionLocal, autoflush=False).     *)
(***************************************************************************)
\* The mapped columns of Article.  created_at is set once by its default and
\* never read or written by the handlers, so rows leave it out.  There is no
\* mapped attribute "categories": the class declares none, though revision
\* aa0000000001 adds a column of that name to the table.
ArticleColumns ==
    {"id", "title", "url", "url_canonical", "url_hash", "summary", "content",
     "source", "source_norm", "category", "country", "published_at", "lang",
     "content_simhash"}

\* A table that lacks uq_article_url_hash: only the url is checked
UniqueUrlOnly(rows) ==
    \A i, j \in 1..Len(rows) : i < j => rows[i].url # rows[j].url

\* uq_article_url and uq_article_url_hash; NULLs never conflict
UniqueOK(rows) ==
    \A i, j \in 1..Len(rows) :
        i < j =>
            /\ rows[i].url # rows[j].url
            /\ (rows[i].url_hash = None \/ rows[i].url_hash # rows[j].url_hash)

\* A fresh Session(): an empty identity map
NewSession(op, arg) ==
    [op |-> op, pc |-> "run", arg |-> arg, i |-> 0, objs |-> <<>>,
     created |-> 0, updated |-> 0, err |-> "", ret |-> 0]

NoSession == [NewSession("idle", <<>>) EXCEPT !.pc = "idle"]

\* ml.present: `from ml.infer import classify` succeeded when the process
\* started, else ml_classify is None; ml.asked: the calls made to it
NoClassifier == [present |-> FALSE, asked |-> <<>>]

\* select(Article).where(Article.url == url) ... .first(): the id of the row,
\* 0 when there is none.  Reads see the committed rows (READ COMMITTED).
select_by_url(rows, url) ==
    LET hit == {k \in 1..Len(rows) : rows[k].url = url}
    IN  IF hit = {} THEN 0 ELSE SetMin(hit)

\* select(Article).where(Article.url_hash == h) ... .first()
select_by_url_hash(rows, h) ==
    LET hit == {k \in 1..Len(rows) : rows[k].url_hash = h}
    IN  IF hit = {} THEN 0 ELSE SetMin(hit)

\* The ORM object of row k: the one already in the session's identity map
\* (not refreshed), else loaded from the row
orm_load(S, rows, k) ==
    IF k \in DOMAIN S.objs THEN S
    ELSE [S EXCEPT !.objs = (k :> [orig |-> rows[k], cur |-> rows[k]]) @@ @]

\* UPDATE articles SET <the attributes whose value changed> WHERE id = k
sql_update(rows, k, o) ==
    [rows EXCEPT ![k] = [c \in DOMAIN rows[k] |->
                            IF c \in ArticleColumns /\ o.cur[c] # o.orig[c]
                            THEN o.cur[c] ELSE rows[k][c]]]

\* flush(): one UPDATE per modified object, in primary-key order; a statement
\* that breaks a unique constraint raises IntegrityError
RECURSIVE flush_from(_, _, _)
flush_from(S, rows, k) ==
    IF k > Len(rows) THEN [ok |-> TRUE, rows |-> rows]
    ELSE IF k \notin DOMAIN S.objs \/ S.objs[k].cur = S.objs[k].orig
         THEN flush_from(S, rows, k + 1)
         ELSE LET next == sql_update(rows, k, S.objs[k])
              IN  IF UniqueOK(next) THEN flush_from(S, next, k + 1)
                  ELSE [ok |-> FALSE, rows |-> rows]

\* A commit that leaves in place the UPDATEs flushed before the statement
\* that raised
session_commit_partial(S, rows) == flush_from(S, rows, 1)

\* session.commit(): flush and commit, or IntegrityError and nothing written
session_commit(S, rows) ==
    LET r == flush_from(S, rows, 1)
    IN  IF r.ok THEN r ELSE [ok |-> FALSE, rows |-> rows]

(***************************************************************************)
(* backend/app.py bulk_articles                                            *)
(***************************************************************************)
\* The rules of the create path: the keys looked for in the text and the
\* categories add_cat is called with
CreateRules ==
    <<
      [keys |-> {<<" ", "a", "i", " ">>,
                 <<"U+4EBA", "U+5DE5", "U+667A", "U+80FD">>,
                 <<"U+6A5F", "U+5668", "U+5B78", "U+7FD2">>,
                 <<"U+534A", "U+5C0E", "U+9AD4">>,
                 <<"U+6676", "U+7247">>,
                 <<"c", "h", "i", "p">>,
                 <<"s", "o", "f", "t", "w", "a", "r", "e">>,
                 <<"a", "p", "p">>,
                 <<"U+79D1", "U+6280">>,
                 <<"t", "e", "c", "h">>},
       cats |-> << <<"t", "e", "c", "h", "n", "o", "l", "o", "g", "y">> >>],
      [keys |-> {<<"U+7D93", "U+6FDF">>,
                 <<"i", "n", "f", "l", "a", "t", "i", "o", "n">>,
                 <<"c", "p", "i">>,
                 <<"g", "d", "p">>,
                 <<"U+7D93", "U+6FDF", "U+6210", "U+9577">>,
                 <<"e", "c", "o", "n", "o", "m", "i", "c">>},
       cats |-> << <<"e", "c", "o", "n", "o", "m", "y">> >>],
      [keys |-> {<<"f", "i", "n", "a", "n", "c", "e">>,
                 <<"b", "a", "n", "k">>,
                 <<"U+5229", "U+7387">>,
                 <<"h", "i", "b", "o", "r">>,
                 <<"U+80A1", "U+5E02">>,
                 <<"m", "a", "r", "k", "e", "t">>,
                 <<"U+8B49", "U+5238">>},
       cats |-> << <<"f", "i", "n", "a", "n", "c", "e">>, <<"e", "c", "o", "n", "o", "m", "y">> >>],
      [keys |-> {<<"p", "o", "l", "i", "c", "y">>,
                 <<"r", "e", "g", "u", "l", "a", "t", "i", "o", "n">>,
                 <<"U+76E3", "U+7BA1">>,
                 <<"U+7ACB", "U+6CD5">>,
                 <<"U+653F", "U+5E9C">>,
                 <<"U+90E8", "U+9577">>,
                 <<"U+90E8", "U+6703">>},
       cats |-> << <<"p", "o", "l", "i", "t", "i", "c", "s">> >>],
      [keys |-> {<<"h", "e", "a", "l", "t", "h">>,
                 <<"c", "o", "v", "i", "d">>,
                 <<"U+91AB", "U+7642">>,
                 <<"U+91AB", "U+9662">>,
                 <<"U+5065", "U+5EB7">>},
       cats |-> << <<"h", "e", "a", "l", "t", "h">> >>],
      [keys |-> {<<"s", "p", "o", "r", "t">>,
                 <<"U+6BD4", "U+8CFD">>,
                 <<"U+7403", "U+968A">>,
                 <<"U+7403", "U+54E1">>,
                 <<"w", "o", "r", "l", "d", " ", "c", "u", "p">>,
                 <<"U+5967", "U+904B">>},
       cats |-> << <<"s", "p", "o", "r", "t", "s">> >>],
      [keys |-> {<<"e", "n", "t", "e", "r", "t", "a", "i", "n", "m", "e", "n", "t">>,
                 <<"U+96FB", "U+5F71">>,
                 <<"U+5F71", "U+8996">>,
                 <<"U+97F3", "U+6A02">>,
                 <<"U+660E", "U+661F">>},
       cats |-> << <<"e", "n", "t", "e", "r", "t", "a", "i", "n", "m", "e", "n", "t">> >>],
      [keys |-> {<<"c", "l", "i", "m", "a", "t", "e">>,
                 <<"U+74B0", "U+5883">>,
                 <<"U+6C61", "U+67D3">>,
                 <<"U+7DA0", "U+8272">>,
                 <<"U+6E1B", "U+78B3">>},
       cats |-> << <<"e", "n", "v", "i", "r", "o", "n", "m", "e", "n", "t">> >>] >>

\* The rules of the update path: the finance keys add finance alone
UpdateRules ==
    <<
      [keys |-> {<<" ", "a", "i", " ">>,
                 <<"U+4EBA", "U+5DE5", "U+667A", "U+80FD">>,
                 <<"U+6A5F", "U+5668", "U+5B78", "U+7FD2">>,
                 <<"U+534A", "U+5C0E", "U+9AD4">>,
                 <<"U+6676", "U+7247">>,
                 <<"c", "h", "i", "p">>,
                 <<"s", "o", "f", "t", "w", "a", "r", "e">>,
                 <<"a", "p", "p">>,
                 <<"U+79D1", "U+6280">>,
                 <<"t", "e", "c", "h">>},
       cats |-> << <<"t", "e", "c", "h", "n", "o", "l", "o", "g", "y">> >>],
      [keys |-> {<<"U+7D93", "U+6FDF">>,
                 <<"i", "n", "f", "l", "a", "t", "i", "o", "n">>,
                 <<"c", "p", "i">>,
                 <<"g", "d", "p">>,
                 <<"U+7D93", "U+6FDF", "U+6210", "U+9577">>,
                 <<"e", "c", "o", "n", "o", "m", "i", "c">>},
       cats |-> << <<"e", "c", "o", "n", "o", "m", "y">> >>],
      [keys |-> {<<"f", "i", "n", "a", "n", "c", "e">>,
                 <<"b", "a", "n", "k">>,
                 <<"U+5229", "U+7387">>,
                 <<"h", "i", "b", "o", "r">>,
                 <<"U+80A1", "U+5E02">>,
                 <<"m", "a", "r", "k", "e", "t">>,
                 <<"U+8B49", "U+5238">>},
       cats |-> << <<"f", "i", "n", "a", "n", "c", "e">> >>],
      [keys |-> {<<"p", "o", "l", "i", "c", "y">>,
                 <<"r", "e", "g", "u", "l", "a", "t", "i", "o", "n">>,
                 <<"U+76E3", "U+7BA1">>,
                 <<"U+7ACB", "U+6CD5">>,
                 <<"U+653F", "U+5E9C">>,
                 <<"U+90E8", "U+9577">>,
                 <<"U+90E8", "U+6703">>},
       cats |-> << <<"p", "o", "l", "i", "t", "i", "c", "s">> >>],
      [keys |-> {<<"h", "e", "a", "l", "t", "h">>,
                 <<"c", "o", "v", "i", "d">>,
                 <<"U+91AB", "U+7642">>,
                 <<"U+91AB", "U+9662">>,
                 <<"U+5065", "U+5EB7">>},
       cats |-> << <<"h", "e", "a", "l", "t", "h">> >>],
      [keys |-> {<<"s", "p", "o", "r", "t">>,
                 <<"U+6BD4", "U+8CFD">>,
                 <<"U+7403", "U+968A">>,
                 <<"U+7403", "U+54E1">>,
                 <<"w", "o", "r", "l", "d", " ", "c", "u", "p">>,
                 <<"U+5967", "U+904B">>},
       cats |-> << <<"s", "p", "o", "r", "t", "s">> >>],
      [keys |-> {<<"e", "n", "t", "e", "r", "t", "a", "i", "n", "m", "e", "n", "t">>,
                 <<"U+96FB", "U+5F71">>,
                 <<"U+5F71", "U+8996">>,
                 <<"U+97F3", "U+6A02">>,
                 <<"U+660E", "U+661F">>},
       cats |-> << <<"e", "n", "t", "e", "r", "t", "a", "i", "n", "m", "e", "n", "t">> >>],
      [keys |-> {<<"c", "l", "i", "m", "a", "t", "e">>,
                 <<"U+74B0", "U+5883">>,
                 <<"U+6C61", "U+67D3">>,
                 <<"U+7DA0", "U+8272">>,
                 <<"U+6E1B", "U+78B3">>},
       cats |-> << <<"e", "n", "v", "i", "r", "o", "n", "m", "e", "n", "t">> >>] >>

\* f"{title}\n{summary or ''}", the text given to the classifier, and its
\* lower(), the text the rules look at
classifier_text(title, summary) == title \o <<"\n">> \o Or(summary, <<>>)

text_for_clf(title, summary) == lower(classifier_text(title, summary))

\* add_cat(key): appended unless already there
RECURSIVE add_cats(_, _)
add_cats(cats, keys) ==
    IF keys = <<>> THEN cats
    ELSE add_cats(IF Head(keys) \in Range(cats) THEN cats ELSE Append(cats, Head(keys)),
                  Tail(keys))

\* the `if any(k in text ...)` statements, from rule i on
RECURSIVE rule_cats(_, _, _, _)
rule_cats(Rules, text, i, cats) ==
    IF i > Len(Rules) THEN cats
    ELSE rule_cats(Rules, text, i + 1,
                   IF \E k \in Rules[i].keys : Contains(text, k)
                   THEN add_cats(cats, Rules[i].cats) ELSE cats)

\* "," + ",".join(sorted(set(cats))) + ","
joined_categories(cats) ==
    <<",">> \o join(<<",">>, sorted(Range(cats))) \o <<",">>

general == <<"g", "e", "n", "e", "r", "a", "l">>

\* categories_str of the loop body: the categories of the rules, else the
\* item's category, else "general"
categories_str(title, summary, category) ==
    LET cats == rule_cats(CreateRules, text_for_clf(title, summary), 1, <<>>)
    IN  joined_categories(IF cats = <<>> THEN << Or(category, general) >> ELSE cats)

\* cats_upd of the update branch
cats_upd(title, summary) ==
    rule_cats(UpdateRules, text_for_clf(title, summary), 1, <<>>)

\* What the loop body derives from the item alone, before it looks at the
\* store: from url, title, summary and source as trimmed, and the canonical
\* URL
derived_fields(it, url, title, summary, source, url_canonical) ==
    [url           |-> url,
     title         |-> title,
     summary       |-> summary,
     source        |-> source,
     category      |-> Or(strip(Or(it.category, <<>>)), None),
     categories_str |-> categories_str(title, summary,
                                       Or(strip(Or(it.category, <<>>)), None)),
     cats_upd      |-> cats_upd(title, summary),
     published_at  |-> IF Truthy(it.published_at)
                       THEN fromisoformat(it.published_at) ELSE None,
     url_canonical |-> url_canonical,
     url_hash_val  |-> IF Truthy(url_canonical) THEN url_hash(url_canonical) ELSE None,
     source_norm   |-> normalize_source(source),
     lang          |-> Or(strip(Or(it.lang, <<>>)),
                          IF Truthy(summary) THEN detect_lang(summary) ELSE None),
     incoming_country |-> Or(it.country, None),
     inferred_country |-> infer_country_from_url(url)]

trimmed_fields(it, url, title, summary, source) ==
    derived_fields(it, url, title, summary, source,
                   IF url # <<>> THEN canonicalize_url(url) ELSE url)

item_fields(it) ==
    trimmed_fields(it,
                   strip(Or(it.url, <<>>)),
                   strip(Or(it.title, <<>>)),
                   Or(strip(Or(it.summary, <<>>)), None),
                   Or(strip(Or(it.source, <<>>)), None))

\* An update branch that hashes the title along with the canonical URL
updated_article_hashing_title(a, f) ==
    [a EXCEPT
        !.title         = f.title,
        !.summary       = f.summary,
        !.source        = f.source,
        !.published_at  = IF f.published_at # None THEN f.published_at ELSE @,
        !.category      = IF ~Truthy(@) THEN f.category ELSE @,
        !.categories    = IF f.cats_upd # <<>> THEN joined_categories(f.cats_upd) ELSE @,
        !.country       = Or(f.incoming_country, Or(f.inferred_country, @)),
        !.url_canonical = Or(f.url_canonical, @),
        !.url_hash      = IF Truthy(f.url_hash_val) THEN f.url_hash_val \o f.title ELSE @,
        !.source_norm   = Or(f.source_norm, @),
        !.lang          = Or(f.lang, @)]

\* An update branch that adds the incoming summary to the stored one instead
\* of replacing it
updated_article_merging(a, f) ==
    [a EXCEPT
        !.title         = f.title,
        !.summary       = Or(@, <<>>) \o Or(f.summary, <<>>),
        !.source        = f.source,
        !.published_at  = IF f.published_at # None THEN f.published_at ELSE @,
        !.category      = IF ~Truthy(@) THEN f.category ELSE @,
        !.categories    = IF f.cats_upd # <<>> THEN joined_categories(f.cats_upd) ELSE @,
        !.country       = Or(f.incoming_country, Or(f.inferred_country, @)),
        !.url_canonical = Or(f.url_canonical, @),
        !.url_hash      = Or(f.url_hash_val, @),
        !.source_norm   = Or(f.source_norm, @),
        !.lang          = Or(f.lang, @)]

\* An update branch that lets the incoming category win over the stored one
updated_article_reclassifying(a, f) ==
    [a EXCEPT
        !.title         = f.title,
        !.summary       = f.summary,
        !.source        = f.source,
        !.published_at  = IF f.published_at # None THEN f.published_at ELSE @,
        !.category      = Or(f.category, @),
        !.categories    = IF f.cats_upd # <<>> THEN joined_categories(f.cats_upd) ELSE @,
        !.country       = Or(f.incoming_country, Or(f.inferred_country, @)),
        !.url_canonical = Or(f.url_canonical, @),
        !.url_hash      = Or(f.url_hash_val, @),
        !.source_norm   = Or(f.source_norm, @),
        !.lang          = Or(f.lang, @)]

\* An update branch that assigns lang like title, without `or article.lang`
updated_article_resetting(a, f) ==
    [a EXCEPT
        !.title         = f.title,
        !.summary       = f.summary,
        !.source        = f.source,
        !.published_at  = IF f.published_at # None THEN f.published_at ELSE @,
        !.category      = IF ~Truthy(@) THEN f.category ELSE @,
        !.categories    = IF f.cats_upd # <<>> THEN joined_categories(f.cats_upd) ELSE @,
        !.country       = Or(f.incoming_country, Or(f.inferred_country, @)),
        !.url_canonical = Or(f.url_canonical, @),
        !.url_hash      = Or(f.url_hash_val, @),
        !.source_norm   = Or(f.source_norm, @),
        !.lang          = f.lang]

\* An update branch that keeps the stored summary and source when the item
\* carries none
updated_article_keeping(a, f) ==
    [a EXCEPT
        !.title         = f.title,
        !.summary       = Or(f.summary, @),
        !.source        = Or(f.source, @),
        !.published_at  = IF f.published_at # None THEN f.published_at ELSE @,
        !.category      = IF ~Truthy(@) THEN f.category ELSE @,
        !.categories    = IF f.cats_upd # <<>> THEN joined_categories(f.cats_upd) ELSE @,
        !.country       = Or(f.incoming_country, Or(f.inferred_country, @)),
        !.url_canonical = Or(f.url_canonical, @),
        !.url_hash      = Or(f.url_hash_val, @),
        !.source_norm   = Or(f.source_norm, @),
        !.lang          = Or(f.lang, @)]

\* The update branch on the ORM object a of an existing record.  The
\* assignment to article.categories sets a plain Python attribute (Article
\* maps no such column): flush() writes the mapped columns only.
updated_article(a, f) ==
    [a EXCEPT
        !.title         = f.title,
        !.summary       = f.summary,
        !.source        = f.source,
        !.published_at  = IF f.published_at # None THEN f.published_at ELSE @,
        !.category      = IF ~Truthy(@) THEN f.category ELSE @,
        !.categories    = IF f.cats_upd # <<>> THEN joined_categories(f.cats_upd) ELSE @,
        !.country       = Or(f.incoming_country, Or(f.inferred_country, @)),
        !.url_canonical = Or(f.url_canonical, @),
        !.url_hash      = Or(f.url_hash_val, @),
        !.source_norm   = Or(f.source_norm, @),
        !.lang          = Or(f.lang, @)]

\* the record with id k exists: it is updated in the session L that holds it
update_branch(L, k, f) ==
    [L EXCEPT !.objs[k].cur = updated_article(@, f), !.updated = @ + 1]

\* no record: Article(..., categories=categories_str, ...) is called with a
\* keyword the declarative constructor rejects, since Article has no
\* attribute "categories": TypeError
create_branch(S, f) == [S EXCEPT !.err = "TypeError"]

\* What a call of ml_classify can do: return None (no model file, or
\* predict failed), return the label the model predicts, or raise (a model
\* file that does not load)
Raised == <<"Exception">>

MLOutcomes == {None, <<"w", "o", "r", "l", "d">>, Raised}

\* the create branch that asks the classifier whatever the item's category
asks_classifier_always(f, present) == present

\* `if final_category is None: if ml_classify is not None:`
asks_classifier(f, present) == f.category = None /\ present

\* final_category after the create branch's `if`, when the call answers out
final_category(f, present, out) ==
    IF f.category # None THEN f.category
    ELSE IF ~present THEN general
    ELSE IF out = Raised THEN general
    ELSE Or(out, general)

\* One iteration of the loop, on the classifier M: the call the create
\* branch makes, with the keyword arguments category and categories it then
\* gives to Article(...)
bulk_item_asks(M, rows, f, out) ==
    IF f.url = <<>> \/ f.title = <<>> THEN M
    ELSE IF select_by_url(rows, f.url) # 0 THEN M
    ELSE IF asks_classifier(f, M.present)
    THEN [M EXCEPT !.asked =
             Append(@, [text       |-> classifier_text(f.title, f.summary),
                        out        |-> out,
                        category   |-> Or(final_category(f, M.present, out), general),
                        categories |-> f.categories_str])]
    ELSE M

\* One iteration of `for it in items`, on the session S and the committed
\* rows; f is item_fields(it)
bulk_item_with(S, rows, f) ==
    IF f.url = <<>> \/ f.title = <<>> THEN S      \* continue
    ELSE IF select_by_url(rows, f.url) # 0
    THEN update_branch(orm_load(S, rows, select_by_url(rows, f.url)),
                       select_by_url(rows, f.url), f)
    ELSE create_branch(S, f)

(***************************************************************************)
(* The model's inputs                                                      *)
(***************************************************************************)
U1  == <<"h", "t", "t", "p", ":", "/", "/", "a", ".", "h", "k", "/", "x">>

\* another spelling of U1: the same canonical URL
U1s == <<"h", "t", "t", "p", ":", "/", "/", "a", ".", "h", "k", "/", "x", "/">>

U2  == <<"h", "t", "t", "p", ":", "/", "/", "b", ".", "c", "o", "m", "/", "y">>

\* A row written by an earlier release, before the columns country,
\* url_canonical, url_hash, content, source_norm, lang and categories
\* existed (backend/db.py and the alembic revisions add them to an existing
\* table, where they are NULL)
OldRow(id, url, title, category) ==
    [id |-> id, title |-> title, url |-> url, url_canonical |-> None,
     url_hash |-> None, summary |-> None, content |-> None, source |-> None,
     source_norm |-> None, category |-> category, country |-> None,
     published_at |-> None, lang |-> None, content_simhash |-> None,
     categories |-> None]

\* The databases a process can be started on: an empty one, and ones that
\* hold rows of an earlier release
InitialStores ==
    { <<>>,
      << OldRow(1, U1, <<"o", "l", "d">>, <<"l", "o", "c", "a", "l">>) >>,
      << OldRow(1, U1, <<"o", "l", "d">>, <<"l", "o", "c", "a", "l">>),
         OldRow(2, U1s, <<"o", "l", "d">>, None) >> }

ItemA ==
    [url |-> <<"h", "t", "t", "p", ":", "/", "/", "a", ".", "h", "k", "/", "x">>, title |-> <<"b", "a", "n", "k">>, summary |-> None,
     source |-> <<" ", "B", "B", "C", " ", " ", "N", "e", "w", "s">>, category |-> <<"w", "o", "r", "l", "d">>,
     published_at |-> <<"2024-01-01T00:00:00">>, country |-> None, lang |-> <<"e", "n">>]

ItemB ==
    [url |-> <<" ", "h", "t", "t", "p", ":", "/", "/", "a", ".", "h", "k", "/", "x">>, title |-> <<"c", "h", "i", "p">>, summary |-> <<"g", "d", "p">>,
     source |-> None, category |-> None,
     published_at |-> None, country |-> <<"u", "s">>, lang |-> <<"f", "r">>]

ItemC ==
    [url |-> <<"h", "t", "t", "p", ":", "/", "/", "a", ".", "h", "k", "/", "x", "/">>, title |-> <<"h", "i">>, summary |-> None,
     source |-> None, category |-> <<"t", "e", "c", "h">>,
     published_at |-> <<"n/a">>, country |-> None, lang |-> None]

ItemNew ==
    [url |-> <<"h", "t", "t", "p", ":", "/", "/", "b", ".", "c", "o", "m", "/", "y">>, title |-> <<"h", "i">>, summary |-> None,
     source |-> None, category |-> None,
     published_at |-> None, country |-> None, lang |-> None]

ItemBlankTitle ==
    [url |-> <<"h", "t", "t", "p", ":", "/", "/", "a", ".", "h", "k", "/", "x">>, title |-> <<" ", " ">>, summary |-> None,
     source |-> None, category |-> <<"s", "p", "o", "r", "t", "s">>,
     published_at |-> None, country |-> <<"j", "p">>, lang |-> <<"j", "a">>]

ItemNoUrl ==
    [url |-> None, title |-> <<"h", "i">>, summary |-> None,
     source |-> None, category |-> None,
     published_at |-> None, country |-> None, lang |-> None]

Items == {ItemA, ItemB, ItemC, ItemNew, ItemBlankTitle, ItemNoUrl}

\* item_fields of the model's items, computed once
ItemFields == [it \in Items |-> item_fields(it)]

bulk_item(S, rows, it) == bulk_item_with(S, rows, ItemFields[it])

\* Bounds of the model
MaxBatch == 2

\* requests per run
MaxCalls == 2

\* items per request when two workers run at once
MaxConcBatch == 1

RECURSIVE SeqsUpTo(_, _)
SeqsUpTo(S, n) ==
    IF n = 0 THEN {<<>>}
    ELSE LET shorter == SeqsUpTo(S, n - 1)
         IN  shorter \cup {Append(b, x) : b \in {c \in shorter : Len(c) = n - 1}, x \in S}

\* the request bodies: lists of at most MaxBatch items, the empty list included
Batches == SeqsUpTo(Items, MaxBatch)

ConcBatches == SeqsUpTo(Items, MaxConcBatch)

Workers == {1, 2}

\* What the caller of a request gets: the HTTP status and JSON body of
\* bulk_articles, or the outcome of a task run
Response(op, status, error, created, updated) ==
    [op |-> op, status |-> status, error |-> error,
     created |-> created, updated |-> updated]

NoResponse == Response("none", "", "", 0, 0)

\* the entry of log for a request of worker w with argument req
Finished(w, req, r) ==
    [w |-> w, op |-> r.op, req |-> req, status |-> r.status, error |-> r.error,
     created |-> r.created, updated |-> r.updated]

\* bulk_articles is entered: an empty list is answered 400 at once, else a
\* session is opened
BulkBegin(w, batch) ==
    /\ sess[w].pc = "idle"
    /\ calls < MaxCalls
    /\ calls' = calls + 1
    /\ IF batch = <<>>
       THEN /\ resp' = [resp EXCEPT ![w] = Response("bulk", "400", "", 0, 0)]
            /\ log' = Append(log, Finished(w, batch, resp'[w]))
            /\ UNCHANGED sess
       ELSE /\ sess' = [sess EXCEPT ![w] = NewSession("bulk", batch)]
            /\ resp' = [resp EXCEPT ![w] = Response("bulk", "pending", "", 0, 0)]
            /\ UNCHANGED log
    /\ UNCHANGED <<articles, FAILED, pf, fetches>>
    /\ UNCHANGED taskVars
    /\ UNCHANGED <<norm, labels, run>>
    /\ UNCHANGED ml

\* the next item of the loop; an exception leaves the handler through
\* `finally: session.close()` and the caller gets a 500
BulkItem(w) ==
    /\ sess[w].op = "bulk" /\ sess[w].pc = "run"
    /\ sess[w].i < Len(sess[w].arg)
    /\ LET S == bulk_item([sess[w] EXCEPT !.i = @ + 1], articles, sess[w].arg[sess[w].i + 1])
       IN  IF S.err # ""
           THEN /\ sess' = [sess EXCEPT ![w] = NoSession]
                /\ resp' = [resp EXCEPT ![w] = Response("bulk", "500", S.err, 0, 0)]
                /\ log' = Append(log, Finished(w, sess[w].arg, resp'[w]))
           ELSE /\ sess' = [sess EXCEPT ![w] = S]
                /\ UNCHANGED <<resp, log>>
    /\ UNCHANGED <<articles, calls, FAILED, pf, fetches>>
    /\ UNCHANGED taskVars
    /\ UNCHANGED <<norm, labels, run>>
    /\ \E out \in MLOutcomes :
          ml' = bulk_item_asks(ml, articles, ItemFields[sess[w].arg[sess[w].i + 1]], out)

\* session.commit() after the loop, then the JSON answer; IntegrityError is
\* not caught, so it too ends in a 500 with nothing written
BulkCommit(w) ==
    /\ sess[w].op = "bulk" /\ sess[w].pc = "run"
    /\ sess[w].i = Len(sess[w].arg)
    /\ LET r == session_commit(sess[w], articles)
       IN  /\ articles' = r.rows
           /\ resp' = [resp EXCEPT ![w] =
                          IF r.ok
                          THEN Response("bulk", "200", "", sess[w].created, sess[w].updated)
                          ELSE Response("bulk", "500", "IntegrityError", 0, 0)]
    /\ log' = Append(log, Finished(w, sess[w].arg, resp'[w]))
    /\ sess' = [sess EXCEPT ![w] = NoSession]
    /\ UNCHANGED <<calls, FAILED, pf, fetches>>
    /\ UNCHANGED taskVars
    /\ UNCHANGED <<norm, labels, run>>
    /\ UNCHANGED ml

(***************************************************************************)
(* tasks/fetch_article.py fetch_article                                    *)
(***************************************************************************)
\* What requests.get(url) and extract_readable_text give for a page: an HTTP
\* or network error, or the readable text (possibly empty)
Pages ==
    { [ok |-> FALSE, text |-> <<>>],
      [ok |-> TRUE,  text |-> <<>>],
      [ok |-> TRUE,  text |-> <<"n", "e", "w", "s">>],
      [ok |-> TRUE,  text |-> <<"U+65B0", "U+805E">>] }

FetchUrls == {U1, U1s, U2}

\* the assignments with the text added to the stored content
enriched_article_appending(a, url_c, content) ==
    [a EXCEPT
        !.url_canonical   = url_c,
        !.url_hash        = url_hash(url_c),
        !.content         = IF content = <<>> THEN @
                            ELSE IF Truthy(@) THEN @ \o content ELSE content,
        !.content_simhash = IF content # <<>> THEN simhash_hex(content) ELSE @,
        !.lang            = IF content # <<>> /\ Truthy(detect_lang(content))
                            THEN detect_lang(content) ELSE @]

\* the assignments with the text stored as the summary too
enriched_article_summarising(a, url_c, content) ==
    [a EXCEPT
        !.url_canonical   = url_c,
        !.url_hash        = url_hash(url_c),
        !.summary         = IF content # <<>> THEN content ELSE @,
        !.content         = IF content # <<>> THEN content ELSE @,
        !.content_simhash = IF content # <<>> THEN simhash_hex(content) ELSE @,
        !.lang            = IF content # <<>> /\ Truthy(detect_lang(content))
                            THEN detect_lang(content) ELSE @]

\* the assignments of fetch_article to the record it found
enriched_article(a, url_c, content) ==
    [a EXCEPT
        !.url_canonical   = url_c,
        !.url_hash        = url_hash(url_c),
        !.content         = IF content # <<>> THEN content ELSE @,
        !.content_simhash = IF content # <<>> THEN simhash_hex(content) ELSE @,
        !.lang            = IF content # <<>> /\ Truthy(detect_lang(content))
                            THEN detect_lang(content) ELSE @]

\* the lookups in the other order
fetch_article_target_by_url(rows, url, url_c) ==
    IF select_by_url(rows, url) # 0
    THEN select_by_url(rows, url)
    ELSE select_by_url_hash(rows, url_hash(url_c))

\* the record fetch_article works on: the first with the url_hash, else the
\* first with the url; 0 when there is none
fetch_article_target(rows, url, url_c) ==
    IF select_by_url_hash(rows, url_hash(url_c)) # 0
    THEN select_by_url_hash(rows, url_hash(url_c))
    ELSE select_by_url(rows, url)

\* `if art:` with art the record of id k
fetch_article_on(S, rows, k, url_c, content) ==
    IF k = 0 THEN S
    ELSE [orm_load(S, rows, k) EXCEPT
             !.objs[k].cur = enriched_article(@, url_c, content), !.ret = k]

fetch_article_found(S, rows, url, url_c, content) ==
    fetch_article_on(S, rows, fetch_article_target(rows, url, url_c), url_c, content)

\* the body of fetch_article after a successful GET: the session with the
\* target record modified, or S unchanged when no record matches
fetch_article_body(S, rows, url, text) ==
    fetch_article_found(S, rows, url, canonicalize_url(url), text)

\* a whole run of the task on the store rows after a successful GET: the
\* outcome of its commit
fetch_article_run(rows, url, text) ==
    session_commit(fetch_article_body(NewSession("fetch_article", url), rows, url, text),
                   rows)

\* a run of the task up to its commit: the GET, the lookups, the assignments
FetchArticleRun(w, url, page) ==
    /\ sess[w].pc = "idle"
    /\ calls < MaxCalls
    /\ calls' = calls + 1
    /\ IF ~page.ok
       THEN \* raise_for_status or the request itself raises: the task fails
            /\ resp' = [resp EXCEPT ![w] = Response("fetch_article", "raised", "HTTPError", 0, 0)]
            /\ log' = Append(log, Finished(w, url, resp'[w]))
            /\ UNCHANGED sess
       ELSE LET S == fetch_article_body(NewSession("fetch_article", url), articles, url, page.text)
            IN  IF S.ret = 0
                THEN \* no record: nothing to commit, the task returns None
                     /\ resp' = [resp EXCEPT ![w] = Response("fetch_article", "returned", "", 0, 0)]
                     /\ log' = Append(log, Finished(w, url, resp'[w]))
                     /\ UNCHANGED sess
                ELSE /\ sess' = [sess EXCEPT ![w] = S]
                     /\ resp' = [resp EXCEPT ![w] = Response("fetch_article", "pending", "", 0, 0)]
                     /\ UNCHANGED log
    /\ UNCHANGED <<articles, FAILED, pf, fetches>>
    /\ UNCHANGED taskVars
    /\ UNCHANGED <<norm, labels, run>>
    /\ UNCHANGED ml

\* s.commit() of the task; IntegrityError is not caught and fails the task
FetchArticleCommit(w) ==
    /\ sess[w].op = "fetch_article" /\ sess[w].pc = "run"
    /\ LET r == session_commit(sess[w], articles)
       IN  /\ articles' = r.rows
           /\ resp' = [resp EXCEPT ![w] =
                          IF r.ok
                          THEN Response("fetch_article", "returned", "", 0, 1)
                          ELSE Response("fetch_article", "raised", "IntegrityError", 0, 0)]
    /\ log' = Append(log, Finished(w, sess[w].arg, resp'[w]))
    /\ sess' = [sess EXCEPT ![w] = NoSession]
    /\ UNCHANGED <<calls, FAILED, pf, fetches>>
    /\ UNCHANGED taskVars
    /\ UNCHANGED <<norm, labels, run>>
    /\ UNCHANGED ml

(***************************************************************************)
(* crawler/fetch_feeds.py: the resilient fetcher and parse_feed            *)
(***************************************************************************)
\* domain -> alternate feeds or pages, in the order of the dict
ALT_FEEDS ==
    << [dom |-> <<"w", "a", "s", "h", "i", "n", "g", "t", "o", "n", "p", "o", "s", "t", ".", "c", "o", "m">>,
        alts |-> << <<"h", "t", "t", "p", "s", ":", "/", "/", "f", "e", "e", "d", "s", ".", "w", "a", "s", "h", "i", "n", "g", "t", "o", "n", "p", "o", "s", "t", ".", "c", "o", "m", "/", "r", "s", "s", "/", "w", "o", "r", "l", "d">> >>],
       [dom |-> <<"t", "h", "e", "j", "a", "k", "a", "r", "t", "a", "p", "o", "s", "t", ".", "c", "o", "m">>,
        alts |-> << <<"h", "t", "t", "p", "s", ":", "/", "/", "w", "w", "w", ".", "t", "h", "e", "j", "a", "k", "a", "r", "t", "a", "p", "o", "s", "t", ".", "c", "o", "m", "/">> >>],
       [dom |-> <<"t", "i", "m", "e", "s", "o", "f", "i", "s", "r", "a", "e", "l", ".", "c", "o", "m">>,
        alts |-> << <<"h", "t", "t", "p", "s", ":", "/", "/", "w", "w", "w", ".", "t", "i", "m", "e", "s", "o", "f", "i", "s", "r", "a", "e", "l", ".", "c", "o", "m", "/">> >>],
       [dom |-> <<"a", "l", "a", "r", "a", "b", "i", "y", "a", ".", "n", "e", "t">>,
        alts |-> << <<"h", "t", "t", "p", "s", ":", "/", "/", "e", "n", "g", "l", "i", "s", "h", ".", "a", "l", "a", "r", "a", "b", "i", "y", "a", ".", "n", "e", "t", "/">> >> ] >>

\* the codes after which _fetch_content repeats the GET with another
\* User-Agent
RetryCodes == {401, 403, 404}

\* What a GET can give: a response body, an HTTP error status, or any other
\* exception of requests (connection error, timeout).  A body is described
\* by what the parsers find in it: feedparser's entries, the
\* <link rel="alternate"> elements and the <a href> elements with their text.
Bytes(size, entries, links, anchors) ==
    [ok |-> TRUE, size |-> size, entries |-> entries, links |-> links,
     anchors |-> anchors]

\* the None that _fetch_content returns on failure
NoBytes == [Bytes(0, <<>>, <<>>, <<>>) EXCEPT !.ok = FALSE]

\* `if content`, on bytes | None
HasBytes(b) == b.ok /\ b.size > 0

EmptyBytes == Bytes(0, <<>>, <<>>, <<>>)

FeedBody ==
    Bytes(1,
          << [title |-> <<"h", "i">>, link |-> <<"h", "t", "t", "p", "s", ":", "/", "/", "w", "w", "w", ".", "b", "b", "c", ".", "c", "o", ".", "u", "k", "/", "n", "e", "w", "s", "/", "1", "?", "u", "t", "m", "_", "s", "o", "u", "r", "c", "e", "=", "r", "s", "s">>,
              summary |-> <<"g", "d", "p">>, published |-> <<"2024-01-01T00:00:00">>],
             [title |-> <<>>, link |-> <<>>, summary |-> <<>>, published |-> None] >>,
          <<>>, <<>>)

PageWithLink ==
    Bytes(1, <<>>,
          << [type |-> <<"t", "e", "x", "t", "/", "h", "t", "m", "l">>, href |-> <<"/", "a", "m", "p">>],
             [type |-> <<"a", "p", "p", "l", "i", "c", "a", "t", "i", "o", "n", "/", "R", "S", "S", "+", "x", "m", "l">>, href |-> <<"/", "a", "l", "t", ".", "x", "m", "l">>] >>,
          << [text |-> <<" ", "S", "t", "o", "r", "y", " ">>, href |-> <<"/", "a", "/", "?", "u", "t", "m", "_", "m", "e", "d", "i", "u", "m", "=", "x">>],
             [text |-> <<" ", " ">>, href |-> <<"/", "b">>],
             [text |-> <<"M", "o", "r", "e">>, href |-> <<>>],
             [text |-> <<"N", "e", "x", "t">>, href |-> <<"h", "t", "t", "p", "s", ":", "/", "/", "b", ".", "c", "o", "m", "/", "y">>] >>)

PlainPage == Bytes(1, <<>>, <<>>, <<>>)

Bodies == {EmptyBytes, FeedBody, PageWithLink, PlainPage}

HttpCodes == {404, 500}

Outcomes ==
    [kind : {"ok"}, body : Bodies, code : {0}]
        \cup [kind : {"http"}, body : {NoBytes}, code : HttpCodes]
        \cup [kind : {"exc"}, body : {NoBytes}, code : {0}]

\* the alternates tried for a host: those of every ALT_FEEDS domain the host
\* ends with
alternates(host) ==
    LET F[i \in 0..Len(ALT_FEEDS)] ==
            IF i = 0 THEN <<>>
            ELSE F[i - 1] \o (IF endswith(host, ALT_FEEDS[i].dom)
                              THEN ALT_FEEDS[i].alts ELSE <<>>)
    IN  F[Len(ALT_FEEDS)]

\* requests.get(..., timeout=30): the seconds a request of _fetch_content
\* waits for the server
GetTimeout == 30

\* a request as the server sees it, with what it answered: a body ("ok"),
\* an HTTP error status ("http") or nothing ("exc")
Get(url, agent, o) ==
    [url |-> url, agent |-> agent, answer |-> o.kind, code |-> o.code,
     timeout |-> GetTimeout]

\* the outcome of a call of _fetch_content: the value returned, the records
\* appended to FAILED and the requests issued, in order
Fetched(body, gets) == [ret |-> body, failed |-> <<>>, gets |-> gets]

\* A failure recorded under the URL of the last request issued instead of the
\* URL asked for
FetchFailureAtLast(url, reason, gets) ==
    [ret |-> NoBytes,
     failed |-> << [url |-> gets[Len(gets)].url, reason |-> reason] >>,
     gets |-> gets]

FetchFailure(url, reason, gets) ==
    [ret |-> NoBytes, failed |-> << [url |-> url, reason |-> reason] >>, gets |-> gets]

\* A _fetch_content that repeats the GET after any HTTP error status
fetch_content_retrying_all(url, alts, o1, o2, oa) ==
    LET hit      == {i \in 1..Len(alts) : oa[i].kind = "ok"}
        g1       == << Get(url, "default", o1) >>
        g2       == Append(g1, Get(url, "other", o2))
        galts(n) == g2 \o [i \in 1..n |-> Get(alts[i], "other", oa[i])]
        reason   == "http_error:" \o ToString(o1.code)
    IN  IF o1.kind = "ok" THEN Fetched(o1.body, g1)
        ELSE IF o1.kind = "http"
        THEN IF o1.code \in RetryCodes \cup HttpCodes
             THEN IF o2.kind = "ok" THEN Fetched(o2.body, g2)
                  ELSE IF hit # {}
                  THEN Fetched(oa[SetMin(hit)].body, galts(SetMin(hit)))
                  ELSE FetchFailure(url, reason, galts(Len(alts)))
             ELSE FetchFailure(url, reason, g1)
        ELSE FetchFailure(url, "exception", g1)

\* crawler/fetch_feeds.py _fetch_content, on the outcomes of the requests it
\* may issue: o1 for the first GET, o2 for the GET with the other User-Agent,
\* oa[i] for the i-th of alts, the alternates of the URL's host
fetch_content(url, alts, o1, o2, oa) ==
    LET hit      == {i \in 1..Len(alts) : oa[i].kind = "ok"}
        g1       == << Get(url, "default", o1) >>
        g2       == Append(g1, Get(url, "other", o2))
        galts(n) == g2 \o [i \in 1..n |-> Get(alts[i], "other", oa[i])]
        reason   == "http_error:" \o ToString(o1.code)
    IN  IF o1.kind = "ok" THEN Fetched(o1.body, g1)
        ELSE IF o1.kind = "http"
        THEN IF o1.code \in RetryCodes
             THEN IF o2.kind = "ok" THEN Fetched(o2.body, g2)
                  ELSE IF hit # {}
                  THEN Fetched(oa[SetMin(hit)].body, galts(SetMin(hit)))
                  ELSE FetchFailure(url, reason, galts(Len(alts)))
             ELSE FetchFailure(url, reason, g1)
        ELSE FetchFailure(url, "exception", g1)

\* requests.compat.urljoin(base, ref) for an absolute URL, a path that starts
\* with "/" and a relative path without dot segments
urljoin(base, ref) ==
    LET b == urlsplit(base)
        r == urlsplit(ref)
    IN  IF ref = <<>> THEN base
        ELSE IF r.scheme # <<>> THEN ref
        ELSE IF startswith(ref, <<"/">>)
        THEN b.scheme \o <<":", "/", "/">> \o b.netloc \o ref
        ELSE b.scheme \o <<":", "/", "/">> \o b.netloc
                 \o Upto(b.path, rfind(b.path, <<"/">>) + 1) \o ref

\* the paths _discover_feed_from_html probes, in order
DiscoveryPaths == << <<"/", "f", "e", "e", "d">>, <<"/", "r", "s", "s">>, <<"/", "r", "s", "s", ".", "x", "m", "l">>, <<"/", "i", "n", "d", "e", "x", ".", "x", "m", "l">>, <<"/", "a", "t", "o", "m", ".", "x", "m", "l">> >>

\* the first <link rel="alternate"> of a feed type that has an href, joined
\* to the page's URL; None when there is none
discovered_link(url, html) ==
    LET feedy == {i \in 1..Len(html.links) :
                     /\ \/ Contains(lower(html.links[i].type), <<"r", "s", "s">>)
                        \/ Contains(lower(html.links[i].type), <<"a", "t", "o", "m">>)
                        \/ Contains(lower(html.links[i].type), <<"x", "m", "l">>)
                     /\ Truthy(html.links[i].href)}
    IN  IF feedy = {} THEN None
        ELSE urljoin(url, html.links[SetMin(feedy)].href)

\* parse_feed's own infer_country: the suffix map of infer_country_from_url,
\* and a tld_map that has no key "gb"
infer_country(url) ==
    IF ~Truthy(url) THEN None
    ELSE IF endswith(hostname(url), <<".", "g", "b">>) THEN None
    ELSE country_of_host(hostname(url))

\* the items parse_feed builds from the entries of the feed at the
\* descriptor's URL
primary_items(feed_conf, entries) ==
    [i \in 1..Len(entries) |->
        LET e       == entries[i]
            country == IF Truthy(feed_conf.country) THEN feed_conf.country
                       ELSE Or(infer_country(e.link),
                               infer_country(feed_conf.url))
        IN  [title |-> e.title,
             url |-> IF Truthy(e.link) THEN canonicalize_url(e.link) ELSE e.link,
             summary |-> e.summary,
             source |-> feed_conf.source,
             category |-> feed_conf.category,
             published_at |-> e.published,
             country |-> country]]

\* the items built from the entries of a rediscovered feed
alt_items(feed_conf, entries) ==
    [i \in 1..Len(entries) |->
        LET e == entries[i]
        IN  [title |-> e.title,
             url |-> IF Truthy(e.link) THEN canonicalize_url(e.link) ELSE e.link,
             summary |-> e.summary,
             source |-> feed_conf.source,
             category |-> feed_conf.category,
             published_at |-> None,
             country |-> feed_conf.country]]

\* the limits of _simple_html_to_items
AnchorScan == 50

MaxHtmlItems == 20

TitleLimit == 200

RECURSIVE html_items(_, _, _, _)
html_items(anchors, k, feed_conf, items) ==
    IF k > Len(anchors) \/ k > AnchorScan \/ Len(items) >= MaxHtmlItems THEN items
    ELSE LET title == strip(anchors[k].text)
             href  == anchors[k].href
         IN  IF ~Truthy(title) \/ ~Truthy(href)
             THEN html_items(anchors, k + 1, feed_conf, items)
             ELSE html_items(anchors, k + 1, feed_conf,
                      Append(items,
                          [title |-> Slice(title, 1, TitleLimit),
                           url |-> canonicalize_url(urljoin(feed_conf.url, href)),
                           summary |-> None,
                           source |-> feed_conf.source,
                           category |-> feed_conf.category,
                           published_at |-> None,
                           country |-> feed_conf.country]))

\* A scraper that starts at the second anchor
simple_html_to_items_from_second(html, feed_conf) ==
    html_items(html.anchors, 2, feed_conf, <<>>)

\* crawler/fetch_feeds.py _simple_html_to_items
simple_html_to_items(html, feed_conf) == html_items(html.anchors, 1, feed_conf, <<>>)

\* The feed descriptors of the model: two of FEEDS, the one tasks/fetch_feed
\* builds from a bare URL, and one of the operator's extra feeds whose host is
\* itself a key of ALT_FEEDS
FeedConf(url, source, category, country) ==
    [url |-> url, source |-> source, category |-> category, country |-> country]

ConfBBC == FeedConf(<<"h", "t", "t", "p", "s", ":", "/", "/", "f", "e", "e", "d", "s", ".", "b", "b", "c", "i", ".", "c", "o", ".", "u", "k", "/", "n", "e", "w", "s", "/", "w", "o", "r", "l", "d", "/", "r", "s", "s", ".", "x", "m", "l">>, <<"B", "B", "C", " ", "W", "o", "r", "l", "d">>, <<"w", "o", "r", "l", "d">>, None)

ConfTimesOfIsrael ==
    FeedConf(<<"h", "t", "t", "p", "s", ":", "/", "/", "w", "w", "w", ".", "t", "i", "m", "e", "s", "o", "f", "i", "s", "r", "a", "e", "l", ".", "c", "o", "m", "/", "f", "e", "e", "d", "/">>, <<"T", "i", "m", "e", "s", " ", "o", "f", " ", "I", "s", "r", "a", "e", "l">>, <<"w", "o", "r", "l", "d">>, <<"i", "l">>)

ConfExtra == FeedConf(<<"h", "t", "t", "p", "s", ":", "/", "/", "t", "i", "m", "e", "s", "o", "f", "i", "s", "r", "a", "e", "l", ".", "c", "o", "m", "/", "f", "e", "e", "d", "/">>, None, None, None)

FeedConfs == {ConfBBC, ConfTimesOfIsrael, ConfExtra}

\* the candidate pages of parse_feed: ALT_FEEDS[host] when host is a key
candidates(host) ==
    LET hit == {i \in 1..Len(ALT_FEEDS) : ALT_FEEDS[i].dom = host}
    IN  IF host # <<>> /\ hit # {} THEN ALT_FEEDS[SetMin(hit)].alts ELSE <<>>

\* How the requests of one parse_feed call fail when they fail
Failings ==
    { [kind |-> "http", body |-> NoBytes, code |-> 404],
      [kind |-> "http", body |-> NoBytes, code |-> 500],
      [kind |-> "exc", body |-> NoBytes, code |-> 0] }

\* which probed path serves a feed: none, the first, the last
ProbeHits == {0, 1, Len(DiscoveryPaths)}

FeedServed == [kind |-> "ok", body |-> FeedBody, code |-> 0]

PageServed == [kind |-> "ok", body |-> PlainPage, code |-> 0]

\* The state of a parse_feed call: where it stands (pc), the call of
\* _fetch_content it is about to make (url) and where its result is handled
\* (then), the result of the last call (content, gets), the locals of the
\* discovery in progress (page, stage, cand, probe, alt) and the list returned
\* (items).  fail, miss and hit are the site's behaviour during the call: how
\* a failing request fails, how a probed path that serves no feed answers,
\* and which of the probed paths serves a feed (0: none).
\* base and failures record, for the properties, the length of FAILED at
\* entry and how many calls of _fetch_content have returned None.
NoParse ==
    [pc |-> "idle", feed_conf |-> ConfBBC, fail |-> PageServed,
     miss |-> PageServed, hit |-> 0, url |-> None,
     then |-> "", content |-> NoBytes, gets |-> <<>>, page |-> None,
     stage |-> "", cand |-> 0, probe |-> 0, alt |-> None, items |-> <<>>,
     base |-> 0, failures |-> 0]

\* `return items`
returned(p, items) ==
    [p EXCEPT !.pc = "done", !.items = items, !.url = None, !.then = "",
              !.content = NoBytes, !.gets = <<>>, !.page = None, !.cand = 0,
              !.probe = 0, !.alt = None]

\* the call _fetch_content(url) whose result is handled at label then
fetching(p, url, then) ==
    [p EXCEPT !.pc = "fetch", !.url = url, !.then = then,
              !.content = NoBytes, !.gets = <<>>]

\* the HTML fallback: html = _fetch_content(feed_conf["url"])
fallback(p) == fetching(p, p.feed_conf.url, "html")

\* _discover_feed_from_html(page) is entered, for parse_feed's stage
discovering(p, page, stage, cand) ==
    [fetching(p, page, "disc_page") EXCEPT !.page = page, !.stage = stage,
                                           !.cand = cand, !.probe = 0,
                                           !.alt = None]

\* A loop over the candidate pages that does not advance
next_candidate_again(p, i) ==
    LET cands == candidates(hostname(p.feed_conf.url))
    IN  IF cands # <<>> THEN discovering(p, cands[1], "candidate", 1)
        ELSE fallback(p)

\* the loop over ALT_FEEDS[host] from its i-th candidate on
next_candidate(p, i) ==
    LET cands == candidates(hostname(p.feed_conf.url))
    IN  IF i <= Len(cands) THEN discovering(p, cands[i], "candidate", i)
        ELSE fallback(p)

\* the stage in progress has given no item: on to the candidates after the
\* rediscovery, to the next candidate after a candidate
no_items(p) ==
    IF p.stage = "rediscover" THEN next_candidate(p, 1)
    ELSE next_candidate(p, p.cand + 1)

\* _discover_feed_from_html has returned alt (None or a URL)
discovered(p, alt) ==
    IF Truthy(alt)
    THEN [fetching(p, alt, "alt_feed") EXCEPT !.alt = alt]
    ELSE no_items(p)

\* the record parse_feed appends when every path gave nothing
no_entries(feed_conf) == [url |-> feed_conf.url, reason |-> "no_entries"]

\* parse_feed(feed_conf) is entered: content = _fetch_content(feed_conf["url"])
ParseFeedCall(feed_conf, fail, miss, hit) ==
    /\ pf.pc = "idle"
    /\ pf' = fetching([NoParse EXCEPT !.feed_conf = feed_conf, !.fail = fail,
                                      !.miss = miss, !.hit = hit,
                                      !.base = Len(FAILED)],
                      feed_conf.url, "primary")
    /\ UNCHANGED <<articles, sess, resp, log, calls, FAILED, fetches>>
    /\ UNCHANGED taskVars
    /\ UNCHANGED <<norm, labels, run>>
    /\ UNCHANGED ml

\* The outcomes of the requests of the call in progress.  A request that
\* fails fails as p.fail says; the probed path p.hit serves a feed and the
\* others answer as p.miss says, also to the other User-Agent; a request that
\* is not issued is given the outcome p.fail.
Served == {o \in Outcomes : o.kind = "ok"}

FirstAnswers(p) ==
    IF p.then = "disc_probe"
    THEN {IF p.probe = p.hit THEN FeedServed ELSE p.miss}
    ELSE Served \cup {p.fail}

RetryAnswers(p, o1) ==
    IF p.then # "disc_probe" /\ o1.kind = "http" /\ o1.code \in RetryCodes
    THEN Served \cup {p.fail}
    ELSE {p.fail}

AlternateAnswers(p, o1, o2, n) ==
    IF /\ p.then # "disc_probe"
       /\ o1.kind = "http" /\ o1.code \in RetryCodes
       /\ o2 = p.fail
    THEN [1..n -> Served \cup {p.fail}]
    ELSE [1..n -> {p.fail}]

\* the call of _fetch_content has returned r
fetch_returned(p, r) ==
    [p EXCEPT !.pc = p.then, !.content = r.ret, !.gets = r.gets,
              !.failures = IF r.ret.ok THEN @ ELSE @ + 1]

\* one call of _fetch_content for a host with the alternates alts, from its
\* first GET to its return
FetchContentVia(alts) ==
    \E o1 \in FirstAnswers(pf) :
      \E o2 \in RetryAnswers(pf, o1) :
        \E oa \in AlternateAnswers(pf, o1, o2, Len(alts)) :
          /\ FAILED' = FAILED \o fetch_content(pf.url, alts, o1, o2, oa).failed
          /\ pf' = fetch_returned(pf, fetch_content(pf.url, alts, o1, o2, oa))

FetchContent ==
    /\ pf.pc = "fetch"
    /\ FetchContentVia(alternates(hostname(pf.url)))
    /\ fetches' = fetches + 1
    /\ UNCHANGED <<articles, sess, resp, log, calls>>
    /\ UNCHANGED taskVars
    /\ UNCHANGED <<norm, labels, run>>
    /\ UNCHANGED ml

\* A parse_feed that goes on to the rediscovery whatever the feed at the
\* descriptor's URL gave
ParsePrimaryThenRediscover ==
    /\ pf.pc = "primary"
    /\ pf' = discovering(pf, pf.feed_conf.url, "rediscover", 0)
    /\ UNCHANGED <<articles, sess, resp, log, calls, FAILED, fetches>>
    /\ UNCHANGED taskVars
    /\ UNCHANGED <<norm, labels, run>>
    /\ UNCHANGED ml

\* the feed at the descriptor's URL is parsed; with no item the discovery on
\* that URL starts
ParsePrimary ==
    /\ pf.pc = "primary"
    /\ LET entries == IF HasBytes(pf.content) THEN pf.content.entries ELSE <<>>
           items   == primary_items(pf.feed_conf, entries)
       IN  pf' = IF items # <<>> THEN returned(pf, items)
                 ELSE discovering(pf, pf.feed_conf.url, "rediscover", 0)
    /\ UNCHANGED <<articles, sess, resp, log, calls, FAILED, fetches>>
    /\ UNCHANGED taskVars
    /\ UNCHANGED <<norm, labels, run>>
    /\ UNCHANGED ml

\* _discover_feed_from_html after the page was fetched: no page, a feed
\* link, or the first probe
DiscoverPage ==
    /\ pf.pc = "disc_page"
    /\ LET html == pf.content
           link == discovered_link(pf.page, html)
       IN  pf' = IF ~HasBytes(html) THEN discovered(pf, None)
                 ELSE IF link # None THEN discovered(pf, link)
                 ELSE [fetching(pf, urljoin(pf.page, DiscoveryPaths[1]), "disc_probe")
                          EXCEPT !.probe = 1]
    /\ UNCHANGED <<articles, sess, resp, log, calls, FAILED, fetches>>
    /\ UNCHANGED taskVars
    /\ UNCHANGED <<norm, labels, run>>
    /\ UNCHANGED ml

\* _discover_feed_from_html after a probe: the probed URL when it has
\* entries, else the next path, None after the last
DiscoverProbe ==
    /\ pf.pc = "disc_probe"
    /\ pf' = IF HasBytes(pf.content) /\ pf.content.entries # <<>>
             THEN discovered(pf, pf.url)
             ELSE IF pf.probe < Len(DiscoveryPaths)
             THEN [fetching(pf, urljoin(pf.page, DiscoveryPaths[pf.probe + 1]), "disc_probe")
                      EXCEPT !.probe = pf.probe + 1]
             ELSE discovered(pf, None)
    /\ UNCHANGED <<articles, sess, resp, log, calls, FAILED, fetches>>
    /\ UNCHANGED taskVars
    /\ UNCHANGED <<norm, labels, run>>
    /\ UNCHANGED ml

\* the discovered feed was fetched: its items are returned if there are any
ParseAlternate ==
    /\ pf.pc = "alt_feed"
    /\ LET entries == IF HasBytes(pf.content) THEN pf.content.entries ELSE <<>>
           items   == alt_items(pf.feed_conf, entries)
       IN  pf' = IF items # <<>> THEN returned(pf, items) ELSE no_items(pf)
    /\ UNCHANGED <<articles, sess, resp, log, calls, FAILED, fetches>>
    /\ UNCHANGED taskVars
    /\ UNCHANGED <<norm, labels, run>>
    /\ UNCHANGED ml

\* the HTML fallback after its fetch: the anchors of the page, or on to the
\* no_entries record
HtmlFallback ==
    /\ pf.pc = "html"
    /\ pf' = IF HasBytes(pf.content)
             THEN returned(pf, simple_html_to_items(pf.content, pf.feed_conf))
             ELSE [pf EXCEPT !.pc = "no_entries"]
    /\ UNCHANGED <<articles, sess, resp, log, calls, FAILED, fetches>>
    /\ UNCHANGED taskVars
    /\ UNCHANGED <<norm, labels, run>>
    /\ UNCHANGED ml

\* A parse_feed that returns [] without the no_entries record
NoEntriesSilent ==
    /\ pf.pc = "no_entries"
    /\ pf' = returned(pf, <<>>)
    /\ UNCHANGED <<articles, sess, resp, log, calls, FAILED, fetches>>
    /\ UNCHANGED taskVars
    /\ UNCHANGED <<norm, labels, run>>
    /\ UNCHANGED ml

\* FAILED.append({... "reason": "no_entries"}); return []
NoEntries ==
    /\ pf.pc = "no_entries"
    /\ FAILED' = Append(FAILED, no_entries(pf.feed_conf))
    /\ pf' = returned(pf, <<>>)
    /\ UNCHANGED <<articles, sess, resp, log, calls, fetches>>
    /\ UNCHANGED taskVars
    /\ UNCHANGED <<norm, labels, run>>
    /\ UNCHANGED ml

(***************************************************************************)
(* tasks/: the Celery tasks fetch_feed and fetch_article, and the          *)
(* scheduler cycle schedule_feeds                                          *)
(***************************************************************************)
\* max_retries of @celery_app.task(...) on fetch_feed and on fetch_article
FeedMaxRetries == 5

ArticleMaxRetries == 3

max_retries(task) ==
    IF task = "fetch_feed" THEN FeedMaxRetries ELSE ArticleMaxRetries

\* crawler/fetch_feeds.py FEEDS, its first entries (the list goes on)
MaxFeeds == 2

FeedsHead ==
    << FeedConf(<<"h", "t", "t", "p", "s", ":", "/", "/", "f", "e", "e", "d", "s", ".", "b", "b", "c", "i", ".", "c", "o", ".", "u", "k", "/", "n", "e", "w", "s", "/", "t", "e", "c", "h", "n", "o", "l", "o", "g", "y", "/", "r", "s", "s", ".", "x", "m", "l">>,
                <<"B", "B", "C", " ", "T", "e", "c", "h", "n", "o", "l", "o", "g", "y">>, <<"t", "e", "c", "h", "n", "o", "l", "o", "g", "y">>, None),
       FeedConf(<<"h", "t", "t", "p", "s", ":", "/", "/", "f", "e", "e", "d", "s", ".", "b", "b", "c", "i", ".", "c", "o", ".", "u", "k", "/", "n", "e", "w", "s", "/", "w", "o", "r", "l", "d", "/", "r", "s", "s", ".", "x", "m", "l">>,
                <<"B", "B", "C", " ", "W", "o", "r", "l", "d">>, <<"w", "o", "r", "l", "d">>, None),
       FeedConf(<<"h", "t", "t", "p", "s", ":", "/", "/", "r", "s", "s", ".", "n", "y", "t", "i", "m", "e", "s", ".", "c", "o", "m", "/", "s", "e", "r", "v", "i", "c", "e", "s", "/", "x", "m", "l", "/", "r", "s", "s", "/", "n", "y", "t", "/", "T", "e", "c", "h", "n", "o", "l", "o", "g", "y", ".", "x", "m", "l">>,
                <<"N", "Y", "T", "i", "m", "e", "s", " ", "T", "e", "c", "h", "n", "o", "l", "o", "g", "y">>, <<"t", "e", "c", "h", "n", "o", "l", "o", "g", "y">>, None) >>

FEEDS == SubSeq(FeedsHead, 1, MaxFeeds)

\* SUPPLEMENTAL_FEEDS: two of its groups, in the dict's order
SUPPLEMENTAL_FEEDS ==
    << [code |-> <<"c", "o", "u", "n", "t", "r", "y", ":", "g", "b">>,
        cfgs |-> << [url |-> <<"h", "t", "t", "p", "s", ":", "/", "/", "w", "w", "w", ".", "b", "b", "c", ".", "c", "o", ".", "u", "k", "/", "n", "e", "w", "s", "/", "u", "k", "/", "r", "s", "s", ".", "x", "m", "l">>] >>],
       [code |-> <<"c", "o", "u", "n", "t", "r", "y", ":", "h", "k">>,
        cfgs |-> << [url |-> <<"h", "t", "t", "p", "s", ":", "/", "/", "w", "w", "w", ".", "s", "c", "m", "p", ".", "c", "o", "m", "/", "r", "s", "s", "/", "2", "/", "f", "e", "e", "d">>],
                    [url |-> <<"h", "t", "t", "p", "s", ":", "/", "/", "w", "w", "w", ".", "h", "k", "e", "t", ".", "c", "o", "m", "/", "r", "s", "s", ".", "x", "m", "l">>],
                    [url |-> <<"h", "t", "t", "p", "s", ":", "/", "/", "f", "i", "n", "a", "n", "c", "e", ".", "n", "o", "w", ".", "c", "o", "m", "/", "n", "e", "w", "s", "/", "r", "s", "s", "/", "f", "i", "n", "a", "n", "c", "e", "_", "r", "s", "s", ".", "x", "m", "l">>] >>] >>

\* SUPPLEMENTAL_FEEDS_LANG: two of its groups, in the dict's order
SUPPLEMENTAL_FEEDS_LANG ==
    << [code |-> <<"l", "a", "n", "g", ":", "f", "r">>,
        cfgs |-> << [url |-> <<"h", "t", "t", "p", "s", ":", "/", "/", "w", "w", "w", ".", "l", "e", "m", "o", "n", "d", "e", ".", "f", "r", "/", "r", "s", "s", "/", "u", "n", "e", ".", "x", "m", "l">>] >>],
       [code |-> <<"l", "a", "n", "g", ":", "e", "s">>,
        cfgs |-> << [url |-> <<"h", "t", "t", "p", "s", ":", "/", "/", "f", "e", "e", "d", "s", ".", "e", "l", "p", "a", "i", "s", ".", "c", "o", "m", "/", "m", "r", "s", "s", "-", "s", "/", "p", "a", "g", "e", "s", "/", "e", "p", "/", "s", "i", "t", "e", "/", "e", "l", "p", "a", "i", "s", ".", "c", "o", "m", "/", "p", "o", "r", "t", "a", "d", "a">>] >>] >>

min_per_country == 20

min_per_lang == 20

\* A row of crawl_stats' by_country or by_lang: the key (`c or ""`) and the
\* count
StatRow(key, count) == [key |-> key, count |-> count]

\* The lists crawl_stats can answer for last24h.by_country: one row per
\* country of the rows created in the window (GROUP BY), NULL as ""
CountryStats ==
    { << StatRow(<<"h", "k">>, 5) >>,
      << StatRow(<<>>, 7), StatRow(<<"g", "b">>, 19), StatRow(<<"h", "k">>, 20) >>,
      << StatRow(<<"g", "b">>, 20), StatRow(<<"h", "k">>, 31) >> }

\* ... and for last24h.by_lang
LangStats ==
    { << StatRow(<<"f", "r">>, 19), StatRow(<<"e", "s">>, 20) >>,
      << StatRow(<<"f", "r">>, 40), StatRow(<<"z", "h">>, 3) >> }

\* What requests.get(".../crawl_stats").json() gives schedule_feeds: an
\* exception (no answer, a timeout, a body that is not JSON), or the stats
NoStats == [ok |-> FALSE, by_country |-> <<>>, by_lang |-> <<>>]

StatsReplies ==
    {NoStats} \cup [ok : {TRUE}, by_country : CountryStats, by_lang : LangStats]

\* {(i.get(k) or ""): i.get("count", 0) for i in rows}.get(code, 0): the
\* count of the last row with the key, 0 when there is none
stat_count(rows, code) ==
    IF {k \in DOMAIN rows : rows[k].key = code} = {} THEN 0
    ELSE rows[SetMax({k \in DOMAIN rows : rows[k].key = code})].count

\* code.split(":", 1)[1]
group_code(code) == after(code, <<":">>)

\* The broker and the result backend: tasks[id] is the task with that id
\* (what it runs, who enqueued it in which cycle, how often it has been
\* executed, its state), queue the messages waiting for a worker.
Broker(T, Q) == [tasks |-> T, queue |-> Q]

\* Task.delay(url): a new task id and its first message
delay(B, task, url, origin, n) ==
    Broker(Append(B.tasks, [task |-> task, url |-> url, origin |-> origin,
                            cycle |-> n, runs |-> 0, state |-> "PENDING"]),
           B.queue \cup {[id |-> Len(B.tasks) + 1, retries |-> 0]})

\* delay for each of urls, in order
RECURSIVE delay_all(_, _, _, _, _)
delay_all(B, task, urls, origin, n) ==
    IF urls = <<>> THEN B
    ELSE delay_all(delay(B, task, Head(urls), origin, n), task, Tail(urls), origin, n)

\* the urls of a list of feed descriptors
urls_of(cfgs) == [k \in DOMAIN cfgs |-> cfgs[k].url]

\* the descriptor fetch_feed passes to parse_feed: the url it was enqueued
\* with, no source, no category and no key "country"
task_conf(feed_url) == FeedConf(feed_url, None, None, None)

\* The urls of the items parse_feed returns for a feed, as fetch_feed chains
\* them: the first primary feed has one article, the others none
chained_urls(feed_url) ==
    IF feed_url = FeedsHead[1].url THEN << U1 >> ELSE <<>>

\* The sets of urls whose task raises on every execution
RaisingSets ==
    { {}, {FeedsHead[1].url}, {FeedsHead[2].url, U1, <<"h", "t", "t", "p", "s", ":", "/", "/", "w", "w", "w", ".", "h", "k", "e", "t", ".", "c", "o", "m", "/", "r", "s", "s", ".", "x", "m", "l">>} }

\* Task.retry giving up one retry late
retry_once_more(B, m) ==
    IF m.retries > max_retries(B.tasks[m.id].task)
    THEN Broker([B.tasks EXCEPT ![m.id].state = "FAILURE"], B.queue)
    ELSE Broker([B.tasks EXCEPT ![m.id].state = "RETRY"],
                B.queue \cup {[id |-> m.id, retries |-> m.retries + 1]})

\* autoretry_for=(Exception,): the body raised in the execution of message m.
\* Task.retry republishes the message with retries + 1, unless that exceeds
\* max_retries: then the exception is raised and the task ends in FAILURE.
retry(B, m) ==
    IF m.retries + 1 > max_retries(B.tasks[m.id].task)
    THEN Broker([B.tasks EXCEPT ![m.id].state = "FAILURE"], B.queue)
    ELSE Broker([B.tasks EXCEPT ![m.id].state = "RETRY"],
                B.queue \cup {[id |-> m.id, retries |-> m.retries + 1]})

\* the body returned: fetch_feed has chained a fetch_article per item url
succeed(B, m) ==
    IF B.tasks[m.id].task = "fetch_feed"
    THEN delay_all(Broker([B.tasks EXCEPT ![m.id].state = "SUCCESS"], B.queue),
                   "fetch_article", chained_urls(B.tasks[m.id].url), <<"chain">>,
                   B.tasks[m.id].cycle)
    ELSE Broker([B.tasks EXCEPT ![m.id].state = "SUCCESS"], B.queue)

\* a worker has taken message m and executed the task
executed(B, m, raises) ==
    IF raises
    THEN retry(Broker([B.tasks EXCEPT ![m.id].runs = @ + 1], B.queue \ {m}), m)
    ELSE succeed(Broker([B.tasks EXCEPT ![m.id].runs = @ + 1], B.queue \ {m}), m)

\* cycles of the beat schedule per run
MaxCycles == 1

\* schedule_feeds between two cycles
NoCycle ==
    [pc |-> "idle", n |-> 0, i |-> 0, g |-> 0, count |-> 0, stats |-> NoStats]

\* the beat schedule fires: schedule_feeds starts with count = 0
ScheduleFeeds ==
    /\ cycle.pc \in {"idle", "done"}
    /\ cycle.n < MaxCycles
    /\ cycle' = [NoCycle EXCEPT !.pc = "primary", !.n = cycle.n + 1]
    /\ UNCHANGED <<tasks, queue, raising>>
    /\ UNCHANGED storeVars
    /\ UNCHANGED <<norm, labels, run>>
    /\ UNCHANGED ml

\* for f in FEEDS: fetch_feed.delay(url); count += 1
EnqueuePrimary ==
    /\ cycle.pc = "primary"
    /\ cycle.i < Len(FEEDS)
    /\ tasks' = delay(Broker(tasks, queue), "fetch_feed", FEEDS[cycle.i + 1].url,
                      <<"primary">>, cycle.n).tasks
    /\ queue' = delay(Broker(tasks, queue), "fetch_feed", FEEDS[cycle.i + 1].url,
                      <<"primary">>, cycle.n).queue
    /\ cycle' = [cycle EXCEPT !.i = @ + 1, !.count = @ + 1]
    /\ UNCHANGED raising
    /\ UNCHANGED storeVars
    /\ UNCHANGED <<norm, labels, run>>
    /\ UNCHANGED ml

\* the stats read not waiting for the end of the primary loop
ReadStatsEarly(reply) ==
    /\ cycle.pc = "primary"
    /\ cycle.i <= Len(FEEDS)
    /\ cycle' = IF reply.ok
                THEN [cycle EXCEPT !.pc = "country", !.g = 1, !.stats = reply]
                ELSE [cycle EXCEPT !.pc = "done"]
    /\ UNCHANGED <<tasks, queue, raising>>
    /\ UNCHANGED storeVars
    /\ UNCHANGED <<norm, labels, run>>
    /\ UNCHANGED ml

\* a stats read whose failure is taken for empty stats: the quota loops run
ReadStatsDefaulting(reply) ==
    /\ cycle.pc = "primary"
    /\ cycle.i = Len(FEEDS)
    /\ cycle' = [cycle EXCEPT !.pc = "country", !.g = 1, !.stats = reply]
    /\ UNCHANGED <<tasks, queue, raising>>
    /\ UNCHANGED storeVars
    /\ UNCHANGED <<norm, labels, run>>
    /\ UNCHANGED ml

\* the GET of crawl_stats after the primary loop; an exception ends the
\* cycle (`except Exception: pass; return count`)
ReadStats(reply) ==
    /\ cycle.pc = "primary"
    /\ cycle.i = Len(FEEDS)
    /\ cycle' = IF reply.ok
                THEN [cycle EXCEPT !.pc = "country", !.g = 1, !.stats = reply]
                ELSE [cycle EXCEPT !.pc = "done"]
    /\ UNCHANGED <<tasks, queue, raising>>
    /\ UNCHANGED storeVars
    /\ UNCHANGED <<norm, labels, run>>
    /\ UNCHANGED ml

\* the quota test admitting a count equal to least
balanced_inclusive(B, group, rows, least, n) ==
    IF stat_count(rows, group_code(group.code)) <= least
    THEN delay_all(B, "fetch_feed", urls_of(group.cfgs), group.code, n)
    ELSE B

\* one iteration of a loop over the supplemental groups: the feeds of group
\* are enqueued when the count of its code is below least
balanced(B, group, rows, least, n) ==
    IF stat_count(rows, group_code(group.code)) < least
    THEN delay_all(B, "fetch_feed", urls_of(group.cfgs), group.code, n)
    ELSE B

\* for code, cfgs in SUPPLEMENTAL_FEEDS.items(): ...
BalanceCountry ==
    /\ cycle.pc = "country"
    /\ IF cycle.g <= Len(SUPPLEMENTAL_FEEDS)
       THEN /\ tasks' = balanced(Broker(tasks, queue), SUPPLEMENTAL_FEEDS[cycle.g],
                                 cycle.stats.by_country, min_per_country, cycle.n).tasks
            /\ queue' = balanced(Broker(tasks, queue), SUPPLEMENTAL_FEEDS[cycle.g],
                                 cycle.stats.by_country, min_per_country, cycle.n).queue
            /\ cycle' = [cycle EXCEPT !.g = @ + 1,
                                      !.count = @ + Len(tasks') - Len(tasks)]
       ELSE /\ cycle' = [cycle EXCEPT !.pc = "lang", !.g = 1]
            /\ UNCHANGED <<tasks, queue>>
    /\ UNCHANGED raising
    /\ UNCHANGED storeVars
    /\ UNCHANGED <<norm, labels, run>>
    /\ UNCHANGED ml

\* for code, cfgs in SUPPLEMENTAL_FEEDS_LANG.items(): ...; return count
BalanceLang ==
    /\ cycle.pc = "lang"
    /\ IF cycle.g <= Len(SUPPLEMENTAL_FEEDS_LANG)
       THEN /\ tasks' = balanced(Broker(tasks, queue), SUPPLEMENTAL_FEEDS_LANG[cycle.g],
                                 cycle.stats.by_lang, min_per_lang, cycle.n).tasks
            /\ queue' = balanced(Broker(tasks, queue), SUPPLEMENTAL_FEEDS_LANG[cycle.g],
                                 cycle.stats.by_lang, min_per_lang, cycle.n).queue
            /\ cycle' = [cycle EXCEPT !.g = @ + 1,
                                      !.count = @ + Len(tasks') - Len(tasks)]
       ELSE /\ cycle' = [cycle EXCEPT !.pc = "done"]
            /\ UNCHANGED <<tasks, queue>>
    /\ UNCHANGED raising
    /\ UNCHANGED storeVars
    /\ UNCHANGED <<norm, labels, run>>
    /\ UNCHANGED ml

\* a worker of the pool executes one of the waiting messages
Execute(m) ==
    /\ m \in queue
    /\ tasks' = executed(Broker(tasks, queue), m, tasks[m.id].url \in raising).tasks
    /\ queue' = executed(Broker(tasks, queue), m, tasks[m.id].url \in raising).queue
    /\ UNCHANGED <<cycle, raising>>
    /\ UNCHANGED storeVars
    /\ UNCHANGED <<norm, labels, run>>
    /\ UNCHANGED ml

(***************************************************************************)
(* tasks/fetch_feed.py fetch_feed, with the ingest it makes                 *)
(***************************************************************************)
\* an item of parse_feed as bulk_articles reads it from the JSON body: the
\* item has no key "lang"
posted(it) ==
    [url |-> it.url, title |-> it.title, summary |-> it.summary,
     source |-> it.source, category |-> it.category,
     published_at |-> it.published_at, country |-> it.country, lang |-> None]

\* `for it in items` of bulk_articles on the fields fs, up to an exception
RECURSIVE bulk_loop(_, _, _, _)
bulk_loop(S, rows, fs, i) ==
    IF i > Len(fs) \/ S.err # "" THEN S
    ELSE CHOOSE R \in {bulk_loop(T, rows, fs, i + 1) :
                          T \in {bulk_item_with(S, rows, fs[i])}} : TRUE

\* session.commit() and the answer of bulk_articles after its loop left the
\* session S: an exception of the loop or of the commit answers 500 and
\* leaves the rows as they were
bulk_answer(S, rows) ==
    LET r == session_commit(S, rows)
    IN  IF S.err # ""
        THEN [rows |-> rows, resp |-> Response("bulk", "500", S.err, 0, 0)]
        ELSE IF r.ok
        THEN [rows |-> r.rows,
              resp |-> Response("bulk", "200", "", S.created, S.updated)]
        ELSE [rows |-> rows, resp |-> Response("bulk", "500", "IntegrityError", 0, 0)]

\* POST /articles/bulk with the items of parse_feed, from the request to the
\* answer: the rows afterwards and the response; fs are the fields the loop
\* derives from the items
bulk_articles(rows, items, fs) ==
    CHOOSE a \in {bulk_answer(S, rows) :
                    S \in {bulk_loop(NewSession("bulk", items), rows, fs, 1)}} : TRUE

\* the urls fetch_feed chains: (it.get("url") or "").strip() when not empty
RECURSIVE item_urls(_)
item_urls(items) ==
    IF items = <<>> THEN <<>>
    ELSE IF strip(Or(Head(items).url, <<>>)) # <<>>
    THEN << strip(Or(Head(items).url, <<>>)) >> \o item_urls(Tail(items))
    ELSE item_urls(Tail(items))

\* The entries feedparser finds in the feed a fetch_feed task parses: none,
\* an entry for the stored url U1, one with a link and no title, one for a
\* url without record, one without link
EntryKnown ==
    [title |-> <<"h", "i">>, link |-> U1, summary |-> <<"g", "d", "p">>,
     published |-> None]

EntryUntitled == [title |-> <<>>, link |-> U2, summary |-> <<>>, published |-> None]

EntryNew ==
    [title |-> <<"n", "e", "w">>, link |-> U2, summary |-> <<>>, published |-> None]

EntryNoLink ==
    [title |-> <<"h", "i">>, link |-> <<>>, summary |-> <<>>, published |-> None]

FeedEntries ==
    { <<>>, << EntryKnown >>, << EntryUntitled >>, << EntryKnown, EntryUntitled >>,
      << EntryKnown, EntryNew >>, << EntryKnown, EntryNoLink >> }

\* parse_feed({"url": feed_url, "source": None, "category": None}) for the
\* feeds of FEEDS and the entries they serve, and the fields bulk_articles
\* derives from the items, computed once
FeedItems ==
    [k \in DOMAIN FEEDS |->
        [entries \in FeedEntries |->
            primary_items(task_conf(FEEDS[k].url), entries)]]

FeedItemFields ==
    [k \in DOMAIN FEEDS |->
        [entries \in FeedEntries |->
            [i \in DOMAIN FeedItems[k][entries] |->
                item_fields(posted(FeedItems[k][entries][i]))]]]

\* a worker executes the task of message m, fetch_feed for the k-th feed of
\* FEEDS, the feed serving entries: parse_feed, then ingest(items) when
\* there are items, whose raise_for_status() raises on a 500 (the task is
\* retried), then fetch_article.delay(url) for each item with a url
FetchFeed(m, k, entries) ==
    /\ m \in queue
    /\ tasks[m.id].task = "fetch_feed"
    /\ tasks[m.id].url = FEEDS[k].url
    /\ \E items \in {FeedItems[k][entries]} :
       \E r \in {bulk_articles(articles, items, FeedItemFields[k][entries])} :
       \E B \in {Broker([tasks EXCEPT ![m.id].runs = @ + 1], queue \ {m})} :
       \E done \in {Broker([B.tasks EXCEPT ![m.id].state = "SUCCESS"], B.queue)} :
       \E B2 \in {IF items = <<>> THEN done
                  ELSE IF r.resp.status = "200"
                  THEN delay_all(done, "fetch_article", item_urls(items),
                                 <<"chain">>, tasks[m.id].cycle)
                  ELSE retry(B, m)} :
           /\ tasks' = B2.tasks
           /\ queue' = B2.queue
           /\ articles' = IF items = <<>> THEN articles ELSE r.rows
           /\ resp' = IF items = <<>> THEN resp ELSE [resp EXCEPT ![1] = r.resp]
    /\ UNCHANGED <<sess, log, calls, FAILED, pf, fetches>>
    /\ UNCHANGED <<cycle, raising>>
    /\ UNCHANGED <<norm, labels, run>>
    /\ UNCHANGED ml

\* no task was ever sent and no cycle has run
NoTasks == tasks = <<>> /\ queue = {} /\ cycle = NoCycle /\ raising = {}

(***************************************************************************)
(* backend/text_utils.py and parse_feed: the url functions called on urls  *)
(***************************************************************************)
\* The urls the functions are called on: a prefix, a host, a path, a query
\* and a fragment
UrlSchemes ==
    { <<"h", "t", "t", "p", ":", "/", "/">>,
      <<"H", "T", "T", "P", ":", "/", "/">>,
      <<"h", "t", "t", "p", "s", ":", "/", "/">>,
      <<"/", "/">>,
      <<>>,
      <<"h", "t", "t", "p", ":", "/", "/", "/", "/">> }

\* hosts
UrlHosts ==
    { <<"N", "e", "w", "s", ".", "E", "x", "a", "m", "p", "l", "e", ".", "c", "o", "m">>,
      <<"a", ".", "h", "k">>,
      <<"w", "w", "w", ".", "b", "b", "c", ".", "c", "o", ".", "u", "k">>,
      <<"e", "x", "a", "m", "p", "l", "e", ".", "c", "o", "m">>,
      <<"s", "h", "o", "p", ".", "c", "o", "m", ".", "h", "k">>,
      <<"x", ".", "g", "b">> }

\* paths
UrlPaths ==
    { <<>>,
      <<"/">>,
      <<"/", "S", "t", "o", "r", "y", "/">>,
      <<"/", "a", "/", "/">>,
      <<"/", "x">> }

\* queries
UrlQueries ==
    { <<>>,
      <<"?", "u", "t", "m", "_", "c", "a", "m", "p", "a", "i", "g", "n", "=", "a", "b", "c", "&", "I", "d", "=", "5", "&", "r", "e", "f", "=", "1">>,
      <<"?", "b", "=", "2", "&", "a", "=", "1">>,
      <<"?", "f", "b", "c", "l", "i", "d", "=", "9">>,
      <<"?", "a">>,
      <<"?", "q", "=", "a", "+", "b", "%", "2", "F">> }

\* fragments
UrlFragments ==
    { <<>>,
      <<"#", "t", "o", "p">> }

\* every url made of these parts, and the absent url
UrlInputs ==
    {None} \cup
    { s \o h \o p \o q \o f :
        s \in UrlSchemes, h \in UrlHosts, p \in UrlPaths, q \in UrlQueries,
        f \in UrlFragments }

\* a result not yet returned
Unset == <<"unset">>

\* no call in progress
NoUrl == [url |-> Unset, canonical |-> Unset, again |-> Unset,
          country |-> Unset, feed_country |-> Unset]

NewUrl(url) == [NoUrl EXCEPT !.url = url]

\* url_c = canonicalize_url(url), as bulk_articles and fetch_article call it
\* (on a str)
Canonicalize ==
    /\ norm.url \notin {Unset, None}
    /\ norm.canonical = Unset
    /\ norm' = [norm EXCEPT !.canonical = canonicalize_url(norm.url)]
    /\ UNCHANGED storeVars
    /\ UNCHANGED taskVars
    /\ UNCHANGED <<ml, labels, run>>

\* canonicalize_url called on a url that is already a canonical one, as
\* fetch_article does for the url of a stored record
Recanonicalize ==
    /\ norm.canonical # Unset
    /\ norm.again = Unset
    /\ norm' = [norm EXCEPT !.again = canonicalize_url(norm.canonical)]
    /\ UNCHANGED storeVars
    /\ UNCHANGED taskVars
    /\ UNCHANGED <<ml, labels, run>>

\* infer_country_from_url(url) of text_utils
InferCountry ==
    /\ norm.url # Unset
    /\ norm.country = Unset
    /\ norm' = [norm EXCEPT !.country = infer_country_from_url(norm.url)]
    /\ UNCHANGED storeVars
    /\ UNCHANGED taskVars
    /\ UNCHANGED <<ml, labels, run>>

\* infer_country(url) of parse_feed
InferFeedCountry ==
    /\ norm.url # Unset
    /\ norm.feed_country = Unset
    /\ norm' = [norm EXCEPT !.feed_country = infer_country(norm.url)]
    /\ UNCHANGED storeVars
    /\ UNCHANGED taskVars
    /\ UNCHANGED <<ml, labels, run>>

(***************************************************************************)
(* backend/category_rules.py                                               *)
(***************************************************************************)
\* \w of a Python str pattern: letters, digits, "_" and the CJK characters
IsWord(c) ==
    \/ c \in Range(UpperCase) \cup Range(LowerCase) \cup Digits \cup {"_"}
    \/ c \notin Range(Alphabet)

\* \b at the gap before position p of text: exactly one side is a word
\* character (outside the text there is none)
boundary(text, p) ==
    (p - 1 \in DOMAIN text /\ IsWord(text[p - 1]))
        # (p \in DOMAIN text /\ IsWord(text[p]))

\* one alternative of a pattern matches text at position p
matches_at(a, text, p) ==
    /\ p + Len(a.lit) - 1 <= Len(text)
    /\ \A k \in 1..Len(a.lit) : text[p + k - 1] = a.lit[k]
    /\ a.left => boundary(text, p)
    /\ a.right => boundary(text, p + Len(a.lit))

\* p.search(text) is not None, for a pattern p given as its alternatives
search(p, text) ==
    \E i \in 1..Len(p) : \E q \in 1..Len(text) : matches_at(p[i], text, q)

\* REGEXES in the order of the dict; an optional group is written as the
\* alternatives without and with it
REGEXES ==
    <<
      [cat |-> "technology", patterns |->
       << << [lit |-> <<"a", "i">>, left |-> TRUE, right |-> TRUE],
          [lit |-> <<"a", "r", "t", "i", "f", "i", "c", "i", "a", "l", " ", "i", "n", "t", "e", "l", "l", "i", "g", "e", "n", "c", "e">>, left |-> FALSE, right |-> FALSE],
          [lit |-> <<"m", "a", "c", "h", "i", "n", "e", " ", "l", "e", "a", "r", "n", "i", "n", "g">>, left |-> FALSE, right |-> FALSE],
          [lit |-> <<"d", "e", "e", "p", " ", "l", "e", "a", "r", "n", "i", "n", "g">>, left |-> FALSE, right |-> FALSE] >>,
          << [lit |-> <<"s", "e", "m", "i", "c", "o", "n", "d", "u", "c", "t", "o", "r">>, left |-> TRUE, right |-> TRUE],
          [lit |-> <<"s", "e", "m", "i", "c", "o", "n", "d", "u", "c", "t", "o", "r", "s">>, left |-> TRUE, right |-> TRUE],
          [lit |-> <<"c", "h", "i", "p">>, left |-> TRUE, right |-> TRUE],
          [lit |-> <<"c", "h", "i", "p", "s">>, left |-> TRUE, right |-> TRUE],
          [lit |-> <<"U+534A", "U+5C0E", "U+9AD4">>, left |-> FALSE, right |-> FALSE],
          [lit |-> <<"U+6676", "U+7247">>, left |-> FALSE, right |-> FALSE] >>,
          << [lit |-> <<"s", "o", "f", "t", "w", "a", "r", "e">>, left |-> TRUE, right |-> TRUE],
          [lit |-> <<"a", "p", "p">>, left |-> TRUE, right |-> TRUE],
          [lit |-> <<"a", "p", "p", "s">>, left |-> TRUE, right |-> TRUE],
          [lit |-> <<"U+8EDF", "U+9AD4">>, left |-> FALSE, right |-> FALSE] >>,
          << [lit |-> <<"c", "y", "b", "e", "r", "s", "e", "c", "u", "r", "i", "t", "y">>, left |-> FALSE, right |-> FALSE],
          [lit |-> <<"c", "y", "b", "e", "r", " ", "s", "e", "c", "u", "r", "i", "t", "y">>, left |-> FALSE, right |-> FALSE],
          [lit |-> <<"U+8CC7", "U+8A0A", "U+5B89", "U+5168">>, left |-> FALSE, right |-> FALSE] >>,
          << [lit |-> <<"c", "l", "o", "u", "d">>, left |-> FALSE, right |-> FALSE],
          [lit |-> <<"U+96F2", "U+7AEF">>, left |-> FALSE, right |-> FALSE] >>,
          << [lit |-> <<"5", "g">>, left |-> TRUE, right |-> TRUE],
          [lit |-> <<"6", "g">>, left |-> TRUE, right |-> TRUE] >>,
          << [lit |-> <<"b", "l", "o", "c", "k", "c", "h", "a", "i", "n">>, left |-> FALSE, right |-> FALSE],
          [lit |-> <<"U+5340", "U+584A", "U+93C8">>, left |-> FALSE, right |-> FALSE] >>,
          << [lit |-> <<"e", "l", "e", "c", "t", "r", "i", "c", " ", "v", "e", "h", "i", "c", "l", "e">>, left |-> FALSE, right |-> FALSE],
          [lit |-> <<"e", "v", " ">>, left |-> FALSE, right |-> FALSE],
          [lit |-> <<"U+96FB", "U+52D5", "U+8ECA">>, left |-> FALSE, right |-> FALSE] >>,
          << [lit |-> <<"t", "e", "c", "h">>, left |-> FALSE, right |-> FALSE],
          [lit |-> <<"t", "e", "c", "h", "n", "o", "l", "o", "g", "y">>, left |-> FALSE, right |-> FALSE],
          [lit |-> <<"U+79D1", "U+6280">>, left |-> FALSE, right |-> FALSE] >> >>],
      [cat |-> "economy", patterns |->
       << << [lit |-> <<"U+7D93", "U+6FDF">>, left |-> FALSE, right |-> FALSE],
          [lit |-> <<"U+666F", "U+6C23">>, left |-> FALSE, right |-> FALSE],
          [lit |-> <<"U+901A", "U+81A8">>, left |-> FALSE, right |-> FALSE],
          [lit |-> <<"U+7269", "U+50F9">>, left |-> FALSE, right |-> FALSE],
          [lit |-> <<"U+901A", "U+8CA8", "U+81A8", "U+8139">>, left |-> FALSE, right |-> FALSE] >>,
          << [lit |-> <<"g", "d", "p">>, left |-> TRUE, right |-> TRUE],
          [lit |-> <<"c", "p", "i">>, left |-> TRUE, right |-> TRUE],
          [lit |-> <<"p", "p", "i">>, left |-> TRUE, right |-> TRUE],
          [lit |-> <<"e", "c", "o", "n", "o", "m", "i", "c", " ", "g", "r", "o", "w", "t", "h">>, left |-> FALSE, right |-> FALSE],
          [lit |-> <<"i", "n", "f", "l", "a", "t", "i", "o", "n">>, left |-> FALSE, right |-> FALSE] >>,
          << [lit |-> <<"u", "n", "e", "m", "p", "l", "o", "y", "m", "e", "n", "t">>, left |-> FALSE, right |-> FALSE],
          [lit |-> <<"r", "e", "t", "a", "i", "l", " ", "s", "a", "l", "e", "s">>, left |-> FALSE, right |-> FALSE],
          [lit |-> <<"U+6D88", "U+8CBB">>, left |-> FALSE, right |-> FALSE],
          [lit |-> <<"U+5C31", "U+696D">>, left |-> FALSE, right |-> FALSE] >> >>],
      [cat |-> "finance", patterns |->
       << << [lit |-> <<"f", "i", "n", "a", "n", "c", "e">>, left |-> FALSE, right |-> FALSE],
          [lit |-> <<"f", "i", "n", "a", "n", "c", "i", "a", "l">>, left |-> FALSE, right |-> FALSE],
          [lit |-> <<"b", "a", "n", "k">>, left |-> FALSE, right |-> FALSE],
          [lit |-> <<"b", "a", "n", "k", "s">>, left |-> FALSE, right |-> FALSE],
          [lit |-> <<"b", "a", "n", "k", "i", "n", "g">>, left |-> FALSE, right |-> FALSE],
          [lit |-> <<"U+5229", "U+7387">>, left |-> FALSE, right |-> FALSE],
          [lit |-> <<"U+52A0", "U+606F">>, left |-> FALSE, right |-> FALSE],
          [lit |-> <<"U+6E1B", "U+606F">>, left |-> FALSE, right |-> FALSE],
          [lit |-> <<"U+606F", "U+53E3">>, left |-> FALSE, right |-> FALSE] >>,
          << [lit |-> <<"s", "t", "o", "c", "k">>, left |-> FALSE, right |-> FALSE],
          [lit |-> <<"s", "t", "o", "c", "k", "s">>, left |-> FALSE, right |-> FALSE],
          [lit |-> <<"e", "q", "u", "i", "t", "y">>, left |-> FALSE, right |-> FALSE],
          [lit |-> <<"e", "q", "u", "i", "t", "i", "e", "s">>, left |-> FALSE, right |-> FALSE],
          [lit |-> <<"m", "a", "r", "k", "e", "t">>, left |-> FALSE, right |-> FALSE],
          [lit |-> <<"m", "a", "r", "k", "e", "t", "s">>, left |-> FALSE, right |-> FALSE],
          [lit |-> <<"U+8B49", "U+5238">>, left |-> FALSE, right |-> FALSE],
          [lit |-> <<"U+80A1", "U+5E02">>, left |-> FALSE, right |-> FALSE],
          [lit |-> <<"U+80A1", "U+7968">>, left |-> FALSE, right |-> FALSE],
          [lit |-> <<"U+6307", "U+6578">>, left |-> FALSE, right |-> FALSE],
          [lit |-> <<"U+57FA", "U+91D1">>, left |-> FALSE, right |-> FALSE],
          [lit |-> <<"U+50B5", "U+5238">>, left |-> FALSE, right |-> FALSE] >>,
          << [lit |-> <<"i", "p", "o">>, left |-> TRUE, right |-> TRUE],
          [lit |-> <<"s", "p", "a", "c">>, left |-> TRUE, right |-> TRUE],
          [lit |-> <<"U+4E26", "U+8CFC">>, left |-> FALSE, right |-> FALSE],
          [lit |-> <<"U+6536", "U+8CFC">>, left |-> FALSE, right |-> FALSE] >> >>],
      [cat |-> "politics", patterns |->
       << << [lit |-> <<"U+653F", "U+7B56">>, left |-> FALSE, right |-> FALSE],
          [lit |-> <<"U+6CD5", "U+6848">>, left |-> FALSE, right |-> FALSE],
          [lit |-> <<"U+7ACB", "U+6CD5">>, left |-> FALSE, right |-> FALSE],
          [lit |-> <<"U+76E3", "U+7BA1">>, left |-> FALSE, right |-> FALSE],
          [lit |-> <<"U+653F", "U+5E9C">>, left |-> FALSE, right |-> FALSE],
          [lit |-> <<"U+5167", "U+95A3">>, left |-> FALSE, right |-> FALSE],
          [lit |-> <<"U+90E8", "U+9577">>, left |-> FALSE, right |-> FALSE],
          [lit |-> <<"U+7279", "U+9996">>, left |-> FALSE, right |-> FALSE],
          [lit |-> <<"U+7E3D", "U+7D71">>, left |-> FALSE, right |-> FALSE],
          [lit |-> <<"U+9996", "U+76F8">>, left |-> FALSE, right |-> FALSE] >>,
          << [lit |-> <<"e", "l", "e", "c", "t", "i", "o", "n">>, left |-> FALSE, right |-> FALSE],
          [lit |-> <<"p", "a", "r", "l", "i", "a", "m", "e", "n", "t">>, left |-> FALSE, right |-> FALSE],
          [lit |-> <<"c", "o", "n", "g", "r", "e", "s", "s">>, left |-> FALSE, right |-> FALSE],
          [lit |-> <<"c", "a", "b", "i", "n", "e", "t">>, left |-> FALSE, right |-> FALSE],
          [lit |-> <<"g", "o", "v", "e", "r", "n", "m", "e", "n", "t">>, left |-> FALSE, right |-> FALSE],
          [lit |-> <<"r", "e", "g", "u", "l", "a", "t", "i", "o", "n">>, left |-> FALSE, right |-> FALSE] >> >>],
      [cat |-> "health", patterns |->
       << << [lit |-> <<"U+5065", "U+5EB7">>, left |-> FALSE, right |-> FALSE],
          [lit |-> <<"U+91AB", "U+7642">>, left |-> FALSE, right |-> FALSE],
          [lit |-> <<"U+91AB", "U+9662">>, left |-> FALSE, right |-> FALSE],
          [lit |-> <<"U+75AB", "U+82D7">>, left |-> FALSE, right |-> FALSE],
          [lit |-> <<"U+65B0", "U+51A0">>, left |-> FALSE, right |-> FALSE],
          [lit |-> <<"U+75AB", "U+60C5">>, left |-> FALSE, right |-> FALSE],
          [lit |-> <<"U+764C">>, left |-> FALSE, right |-> FALSE] >>,
          << [lit |-> <<"c", "o", "v", "i", "d">>, left |-> FALSE, right |-> FALSE],
          [lit |-> <<"v", "a", "c", "c", "i", "n", "e">>, left |-> FALSE, right |-> FALSE],
          [lit |-> <<"h", "e", "a", "l", "t", "h", "c", "a", "r", "e">>, left |-> FALSE, right |-> FALSE],
          [lit |-> <<"h", "o", "s", "p", "i", "t", "a", "l">>, left |-> FALSE, right |-> FALSE] >> >>],
      [cat |-> "sports", patterns |->
       << << [lit |-> <<"s", "p", "o", "r", "t">>, left |-> FALSE, right |-> FALSE],
          [lit |-> <<"s", "p", "o", "r", "t", "s">>, left |-> FALSE, right |-> FALSE],
          [lit |-> <<"f", "o", "o", "t", "b", "a", "l", "l">>, left |-> FALSE, right |-> FALSE],
          [lit |-> <<"s", "o", "c", "c", "e", "r">>, left |-> FALSE, right |-> FALSE],
          [lit |-> <<"b", "a", "s", "k", "e", "t", "b", "a", "l", "l">>, left |-> FALSE, right |-> FALSE],
          [lit |-> <<"t", "e", "n", "n", "i", "s">>, left |-> FALSE, right |-> FALSE],
          [lit |-> <<"o", "l", "y", "m", "p", "i", "c">>, left |-> FALSE, right |-> FALSE],
          [lit |-> <<"w", "o", "r", "l", "d", " ", "c", "u", "p">>, left |-> FALSE, right |-> FALSE],
          [lit |-> <<"U+6BD4", "U+8CFD">>, left |-> FALSE, right |-> FALSE],
          [lit |-> <<"U+7403", "U+968A">>, left |-> FALSE, right |-> FALSE],
          [lit |-> <<"U+7403", "U+54E1">>, left |-> FALSE, right |-> FALSE],
          [lit |-> <<"U+9AD4", "U+80B2">>, left |-> FALSE, right |-> FALSE] >> >>],
      [cat |-> "entertainment", patterns |->
       << << [lit |-> <<"U+5A1B", "U+6A02">>, left |-> FALSE, right |-> FALSE],
          [lit |-> <<"U+96FB", "U+5F71">>, left |-> FALSE, right |-> FALSE],
          [lit |-> <<"U+5F71", "U+8996">>, left |-> FALSE, right |-> FALSE],
          [lit |-> <<"U+97F3", "U+6A02">>, left |-> FALSE, right |-> FALSE],
          [lit |-> <<"U+660E", "U+661F">>, left |-> FALSE, right |-> FALSE],
          [lit |-> <<"U+6F14", "U+5531", "U+6703">>, left |-> FALSE, right |-> FALSE],
          [lit |-> <<"U+85DD", "U+4EBA">>, left |-> FALSE, right |-> FALSE] >>,
          << [lit |-> <<"m", "o", "v", "i", "e">>, left |-> FALSE, right |-> FALSE],
          [lit |-> <<"f", "i", "l", "m">>, left |-> FALSE, right |-> FALSE],
          [lit |-> <<"m", "u", "s", "i", "c">>, left |-> FALSE, right |-> FALSE],
          [lit |-> <<"c", "e", "l", "e", "b", "r", "i", "t", "y">>, left |-> FALSE, right |-> FALSE],
          [lit |-> <<"h", "o", "l", "l", "y", "w", "o", "o", "d">>, left |-> FALSE, right |-> FALSE] >> >>],
      [cat |-> "environment", patterns |->
       << << [lit |-> <<"U+74B0", "U+5883">>, left |-> FALSE, right |-> FALSE],
          [lit |-> <<"U+6C23", "U+5019">>, left |-> FALSE, right |-> FALSE],
          [lit |-> <<"U+6E1B", "U+78B3">>, left |-> FALSE, right |-> FALSE],
          [lit |-> <<"U+78B3", "U+6392">>, left |-> FALSE, right |-> FALSE],
          [lit |-> <<"U+6C61", "U+67D3">>, left |-> FALSE, right |-> FALSE],
          [lit |-> <<"U+4FDD", "U+80B2">>, left |-> FALSE, right |-> FALSE] >>,
          << [lit |-> <<"c", "l", "i", "m", "a", "t", "e">>, left |-> FALSE, right |-> FALSE],
          [lit |-> <<"e", "m", "i", "s", "s", "i", "o", "n">>, left |-> FALSE, right |-> FALSE],
          [lit |-> <<"e", "m", "i", "s", "s", "i", "o", "n", "s">>, left |-> FALSE, right |-> FALSE],
          [lit |-> <<"c", "a", "r", "b", "o", "n">>, left |-> FALSE, right |-> FALSE],
          [lit |-> <<"e", "n", "v", "i", "r", "o", "n", "m", "e", "n", "t">>, left |-> FALSE, right |-> FALSE] >> >>] >>

\* the list `order`
order ==
    << "technology", "finance", "economy", "politics", "health", "sports", "entertainment", "environment" >>

\* the loop over REGEXES.items(): the categories one of whose patterns
\* finds a match, in the order of the dict
RECURSIVE matched_from(_, _)
matched_from(text_l, i) ==
    IF i > Len(REGEXES) THEN <<>>
    ELSE IF \E j \in 1..Len(REGEXES[i].patterns) : search(REGEXES[i].patterns[j], text_l)
    THEN <<REGEXES[i].cat>> \o matched_from(text_l, i + 1)
    ELSE matched_from(text_l, i + 1)

\* [c for c in order if c in matched]
RECURSIVE in_order(_, _)
in_order(matched, i) ==
    IF i > Len(order) THEN <<>>
    ELSE IF order[i] \in Range(matched)
    THEN <<order[i]>> \o in_order(matched, i + 1)
    ELSE in_order(matched, i + 1)

\* classify_categories that returns the list `matched` as the loop built it
classify_categories_as_matched(text) ==
    IF text = <<>> THEN <<>>
    ELSE matched_from(lower(text), 1)

classify_categories(text) ==
    IF text = <<>> THEN <<>>
    ELSE in_order(matched_from(lower(text), 1), 1)

\* The texts classified: up to MaxWords of these words with a space between
\* them, and a sentence
Words ==
    << <<"C", "h", "i", "p">>,
       <<"c", "h", "i", "p", "s", "e", "t">>,
       <<"r", "a", "i", "s", "e", "d">>,
       <<"i", "n", "f", "l", "a", "t", "i", "o", "n">>,
       <<"B", "a", "n", "k", "s">>,
       <<"E", "V">>,
       <<"s", "p", "o", "r", "t">>,
       <<"U+79D1", "U+6280">> >>

MaxWords == 3

Sentence ==
    <<"T", "h", "i", "s", " ", "c", "h", "i", "p", " ", "s", "t", "a", "r", "t", "u", "p", " ", "r", "a", "i", "s", "e", "d", " ", "f", "u", "n", "d", "i", "n", "g", " ", "a", "m", "i", "d", " ", "i", "n", "f", "l", "a", "t", "i", "o", "n", " ", "c", "o", "n", "c", "e", "r", "n", "s">>

RECURSIVE Phrases(_)
Phrases(n) ==
    IF n = 0 THEN {<<>>}
    ELSE Phrases(n - 1) \cup
         {IF t = <<>> THEN Words[i] ELSE t \o <<" ">> \o Words[i] :
              t \in Phrases(n - 1), i \in DOMAIN Words}

Texts == Phrases(MaxWords) \cup {Sentence}

Unclassified == <<"unclassified">>

NoText == [text |-> Unclassified, cats |-> Unclassified]

\* a call of classify_categories(text)
Classify ==
    /\ labels.text # Unclassified
    /\ labels.cats = Unclassified
    /\ labels' = [labels EXCEPT !.cats = classify_categories(labels.text)]
    /\ UNCHANGED storeVars
    /\ UNCHANGED taskVars
    /\ UNCHANGED <<norm, ml, run>>



(***************************************************************************)
(* crawler/fetch_feeds.py main, as crawler/schedule.py runs it              *)
(***************************************************************************)
\* runs of the scheduled job per process
MaxRuns == 2

\* no run has started; report is what last_crawl_failures.json holds
NoRun == [pc |-> "idle", n |-> 0, i |-> 0, base |-> 0, report |-> <<>>]

\* What a call parse_feed(feed_conf) can append to FAILED: nothing (the feed
\* or a later stage gave items), the no_entries record alone (every request
\* was answered, with bodies that hold nothing), or the records of the three
\* failed fetches of the url and the no_entries record (no request answered)
parse_feed_failures(feed_conf) ==
    { <<>>,
      << no_entries(feed_conf) >>,
      FetchFailure(feed_conf.url, "exception", <<>>).failed
          \o FetchFailure(feed_conf.url, "exception", <<>>).failed
          \o FetchFailure(feed_conf.url, "exception", <<>>).failed
          \o << no_entries(feed_conf) >> }

\* run_job(): the interval job (and the call at start-up) enters main(); base
\* marks where FAILED stood
RunJob ==
    /\ run.pc \in {"idle", "done"}
    /\ run.n < MaxRuns
    /\ run' = [run EXCEPT !.pc = "feeds", !.n = @ + 1, !.i = 0, !.base = Len(FAILED)]
    /\ UNCHANGED storeVars
    /\ UNCHANGED taskVars
    /\ UNCHANGED <<norm, ml, labels>>

\* for f in feeds: items = parse_feed(f)
RunParseFeed ==
    /\ run.pc = "feeds"
    /\ run.i < Len(FEEDS)
    /\ \E failed \in parse_feed_failures(FEEDS[run.i + 1]) :
           FAILED' = FAILED \o failed
    /\ run' = [run EXCEPT !.i = @ + 1]
    /\ UNCHANGED <<articles, sess, resp, log, calls, pf, fetches>>
    /\ UNCHANGED taskVars
    /\ UNCHANGED <<norm, ml, labels>>

\* after the loop: ingest(all_items), whose exception is caught (on the
\* empty store every item is a create, answered 500), then
\* json.dump(FAILED, fh)
RunWriteFailures ==
    /\ run.pc = "feeds"
    /\ run.i = Len(FEEDS)
    /\ run' = [run EXCEPT !.pc = "done", !.report = FAILED]
    /\ UNCHANGED storeVars
    /\ UNCHANGED taskVars
    /\ UNCHANGED <<norm, ml, labels>>

(***************************************************************************)
(* Specifications of the store                                             *)
(***************************************************************************)
InitStore ==
    /\ articles \in InitialStores
    /\ sess = [w \in Workers |-> NoSession]
    /\ resp = [w \in Workers |-> NoResponse]
    /\ log = <<>>
    /\ calls = 0
    /\ FAILED = <<>>
    /\ pf = NoParse
    /\ fetches = 0
    /\ NoTasks
    /\ norm = NoUrl
    /\ ml \in {[NoClassifier EXCEPT !.present = b] : b \in BOOLEAN}
    /\ labels = NoText
    /\ run = NoRun

\* one worker: the requests run one after the other
Next ==
    \/ \E b \in Batches : BulkBegin(1, b)
    \/ BulkItem(1)
    \/ BulkCommit(1)
    \/ \E u \in FetchUrls, p \in Pages : FetchArticleRun(1, u, p)
    \/ FetchArticleCommit(1)

Spec == InitStore /\ [][Next]_vars

\* two workers: the requests interleave at their database statements
NextConc ==
    \E w \in Workers :
        \/ \E b \in ConcBatches : BulkBegin(w, b)
        \/ BulkItem(w)
        \/ BulkCommit(w)
        \/ \E u \in FetchUrls, p \in Pages : FetchArticleRun(w, u, p)
        \/ FetchArticleCommit(w)

SpecConc == InitStore /\ [][NextConc]_vars

(***************************************************************************)
(* Specification of the crawler                                            *)
(***************************************************************************)
\* FAILED is a module-level list: it holds what earlier parse_feed calls of
\* the process appended
InitialFailures == { <<>>, << no_entries(ConfBBC) >> }

InitFetch ==
    /\ articles = <<>>
    /\ sess = [w \in Workers |-> NoSession]
    /\ resp = [w \in Workers |-> NoResponse]
    /\ log = <<>>
    /\ calls = 0
    /\ FAILED \in InitialFailures
    /\ pf = NoParse
    /\ fetches = 0
    /\ NoTasks
    /\ norm = NoUrl
    /\ ml = NoClassifier
    /\ labels = NoText
    /\ run = NoRun

NextFetch ==
    \/ /\ pf.pc = "idle"
       /\ \E c \in FeedConfs, f \in Failings, h \in ProbeHits :
             \E m \in {f, PageServed} : ParseFeedCall(c, f, m, h)
    \/ FetchContent
    \/ ParsePrimary
    \/ DiscoverPage
    \/ DiscoverProbe
    \/ ParseAlternate
    \/ HtmlFallback
    \/ NoEntries

SpecFetch == InitFetch /\ [][NextFetch]_vars

(***************************************************************************)
(* Specification of the task queue and the scheduler                       *)
(***************************************************************************)
InitTasks ==
    /\ articles = <<>>
    /\ sess = [w \in Workers |-> NoSession]
    /\ resp = [w \in Workers |-> NoResponse]
    /\ log = <<>>
    /\ calls = 0
    /\ FAILED = <<>>
    /\ pf = NoParse
    /\ fetches = 0
    /\ tasks = <<>>
    /\ queue = {}
    /\ cycle = NoCycle
    /\ raising \in RaisingSets
    /\ norm = NoUrl
    /\ ml = NoClassifier
    /\ labels = NoText
    /\ run = NoRun

NextTasks ==
    \/ ScheduleFeeds
    \/ EnqueuePrimary
    \/ \E reply \in StatsReplies : ReadStats(reply)
    \/ BalanceCountry
    \/ BalanceLang
    \/ \E m \in queue : Execute(m)

SpecTasks == InitTasks /\ [][NextTasks]_vars

(***************************************************************************)
(* Specification of the url functions                                      *)
(***************************************************************************)
InitUrl ==
    /\ articles = <<>>
    /\ sess = [w \in Workers |-> NoSession]
    /\ resp = [w \in Workers |-> NoResponse]
    /\ log = <<>>
    /\ calls = 0
    /\ FAILED = <<>>
    /\ pf = NoParse
    /\ fetches = 0
    /\ NoTasks
    /\ norm \in {NewUrl(url) : url \in UrlInputs}
    /\ ml = NoClassifier
    /\ labels = NoText
    /\ run = NoRun

NextUrl ==
    \/ Canonicalize
    \/ Recanonicalize
    \/ InferCountry
    \/ InferFeedCountry

SpecUrl == InitUrl /\ [][NextUrl]_vars

(***************************************************************************)
(* Specification of the HTML fallback                                      *)
(***************************************************************************)
\* The pages the fallback is given: Blank anchors whose text is blank and an
\* anchor without href, then Good anchors, the i-th with a title that starts
\* with the i-th letter and has TitleLen characters between two spaces
BlankCounts == {0, 1, 30, 31, 50}

GoodCounts == {0, 1, 19, 20, 21}

TitleLens == {1, 200, 201}

BlankAnchor == [text |-> <<" ", " ">>, href |-> <<"/", "b">>]

NoHrefAnchor == [text |-> <<"M", "o", "r", "e">>, href |-> <<>>]

GoodAnchor(i, n) ==
    [text |-> <<" ", LowerCase[i]>> \o [j \in 1..(n - 1) |-> "x"] \o <<" ">>,
     href |-> <<"/", LowerCase[i]>>]

AnchorPage(blank, good, n) ==
    Bytes(1, <<>>, <<>>,
          [k \in 1..blank |-> IF k = 1 THEN NoHrefAnchor ELSE BlankAnchor]
              \o [i \in 1..good |-> GoodAnchor(i, n)])

HtmlPages ==
    {EmptyBytes} \cup
    {AnchorPage(blank, good, n) : blank \in BlankCounts, good \in GoodCounts, n \in TitleLens}

\* the descriptors whose call reaches the fallback without a candidate page
FallbackConfs == {ConfBBC, ConfTimesOfIsrael}

\* the fetches before the fallback's: the feed, the page and the five probed
\* paths, each answered with a body that holds no feed
FetchesBeforeFallback == 2 + Len(DiscoveryPaths)

\* parse_feed after `html = _fetch_content(feed_conf["url"])` has returned
\* the page
AtFallback(feed_conf, page) ==
    [fallback([NoParse EXCEPT !.feed_conf = feed_conf, !.stage = "rediscover"])
        EXCEPT !.pc = "html", !.content = page,
               !.gets = << Get(feed_conf.url, "default",
                               [kind |-> "ok", body |-> page, code |-> 0]) >>]

InitHtml ==
    /\ articles = <<>>
    /\ sess = [w \in Workers |-> NoSession]
    /\ resp = [w \in Workers |-> NoResponse]
    /\ log = <<>>
    /\ calls = 0
    /\ FAILED = <<>>
    /\ pf \in {AtFallback(c, page) : c \in FallbackConfs, page \in HtmlPages}
    /\ fetches = FetchesBeforeFallback + 1
    /\ NoTasks
    /\ norm = NoUrl
    /\ ml = NoClassifier
    /\ labels = NoText
    /\ run = NoRun

NextHtml ==
    \/ HtmlFallback
    \/ NoEntries

SpecHtml == InitHtml /\ [][NextHtml]_vars

(***************************************************************************)
(* Specification of the scheduled crawler                                  *)
(***************************************************************************)
InitRun ==
    /\ articles = <<>>
    /\ sess = [w \in Workers |-> NoSession]
    /\ resp = [w \in Workers |-> NoResponse]
    /\ log = <<>>
    /\ calls = 0
    /\ FAILED = <<>>
    /\ pf = NoParse
    /\ fetches = 0
    /\ NoTasks
    /\ norm = NoUrl
    /\ ml = NoClassifier
    /\ labels = NoText
    /\ run = NoRun

NextRun ==
    \/ RunJob
    \/ RunParseFeed
    \/ RunWriteFailures

SpecRun == InitRun /\ [][NextRun]_vars

(***************************************************************************)
(* Specification of the fetch tasks on the store                           *)
(***************************************************************************)
InitChain ==
    /\ articles \in InitialStores
    /\ sess = [w \in Workers |-> NoSession]
    /\ resp = [w \in Workers |-> NoResponse]
    /\ log = <<>>
    /\ calls = 0
    /\ FAILED = <<>>
    /\ pf = NoParse
    /\ fetches = 0
    /\ NoTasks
    /\ norm = NoUrl
    /\ ml = NoClassifier
    /\ labels = NoText
    /\ run = NoRun

NextChain ==
    \/ ScheduleFeeds
    \/ EnqueuePrimary
    \/ \E m \in queue, k \in DOMAIN FEEDS, entries \in FeedEntries :
           FetchFeed(m, k, entries)

SpecChain == InitChain /\ [][NextChain]_vars

(***************************************************************************)
(* Specification of a worker process: a parse_feed call or a scheduler      *)
(* cycle, each running to its end                                          *)
(***************************************************************************)
InitLive ==
    /\ articles = <<>>
    /\ sess = [w \in Workers |-> NoSession]
    /\ resp = [w \in Workers |-> NoResponse]
    /\ log = <<>>
    /\ calls = 0
    /\ FAILED = <<>>
    /\ pf = NoParse
    /\ fetches = 0
    /\ NoTasks
    /\ norm = NoUrl
    /\ ml = NoClassifier
    /\ labels = NoText
    /\ run = NoRun

\* the process runs parse_feed for a fetch task
Parsing == cycle = NoCycle /\ tasks = <<>> /\ NextFetch

\* the steps of schedule_feeds after its start
Dispatch ==
    \/ EnqueuePrimary
    \/ \E reply \in StatsReplies : ReadStats(reply)
    \/ BalanceCountry
    \/ BalanceLang

\* the process runs schedule_feeds, and the workers of the pool execute what
\* it enqueues
Scheduling == pf = NoParse /\ NextTasks

NextLive ==
    \/ Parsing
    \/ Scheduling

\* schedule_feeds in progress goes on: each of its steps is a delay() or the
\* stats request with its timeout.  Nothing is assumed of the workers of the
\* pool: the tasks enqueued may never be executed.
SpecLive ==
    /\ InitLive
    /\ [][NextLive]_vars
    /\ WF_vars(pf = NoParse /\ Dispatch)

(***************************************************************************)
(* Specification of the category rules                                     *)
(***************************************************************************)
InitClassify ==
    /\ articles = <<>>
    /\ sess = [w \in Workers |-> NoSession]
    /\ resp = [w \in Workers |-> NoResponse]
    /\ log = <<>>
    /\ calls = 0
    /\ FAILED = <<>>
    /\ pf = NoParse
    /\ fetches = 0
    /\ NoTasks
    /\ norm = NoUrl
    /\ ml = NoClassifier
    /\ labels \in {[text |-> t, cats |-> Unclassified] : t \in Texts}
    /\ run = NoRun

NextClassify == Classify

SpecClassify == InitClassify /\ [][NextClassify]_vars

(***************************************************************************)
(* Properties of the ingestion upsert                                      *)
(***************************************************************************)
\* the item passes the check `if not url or not title: continue`
Valid(it) == ItemFields[it].url # <<>> /\ ItemFields[it].title # <<>>

\* no store the process starts on holds a record for url
FreshUrl(url) == \A rows \in InitialStores : select_by_url(rows, url) = 0

\* the records of url
RecordsOf(url) == {k \in DOMAIN articles : articles[k].url = url}

\* a finished bulk ingest of one valid item for a url without a record
SingleCreate(e) ==
    /\ e.op = "bulk"
    /\ Len(e.req) = 1
    /\ Valid(e.req[1])
    /\ FreshUrl(ItemFields[e.req[1]].url)

\* C1: when two workers have each ingested one valid item for the same url
\* that had no record, in whatever interleaving, both were answered 200 and
\* the store holds exactly one record for that url.
C1_RaceResolves ==
    \A i, j \in DOMAIN log :
        (/\ i < j
         /\ log[i].w # log[j].w
         /\ SingleCreate(log[i])
         /\ SingleCreate(log[j])
         /\ ItemFields[log[i].req[1]].url = ItemFields[log[j].req[1]].url)
        => /\ log[i].status = "200"
           /\ log[j].status = "200"
           /\ Cardinality(RecordsOf(ItemFields[log[i].req[1]].url)) = 1

C3_CreateThenUpdate ==
    \A j \in DOMAIN log :
        SingleCreate(log[j]) =>
            IF \E i \in 1..(j - 1) :
                   /\ SingleCreate(log[i])
                   /\ ItemFields[log[i].req[1]].url = ItemFields[log[j].req[1]].url
            THEN /\ log[j].status = "200"
                 /\ log[j].created = 0
                 /\ log[j].updated = 1
                 /\ j = Len(log) =>
                        /\ Cardinality(RecordsOf(ItemFields[log[j].req[1]].url)) = 1
                        /\ \A k \in RecordsOf(ItemFields[log[j].req[1]].url) :
                               articles[k].title = ItemFields[log[j].req[1]].title
            ELSE /\ log[j].status = "200"
                 /\ log[j].created = 1
                 /\ log[j].updated = 0

\* the bulk ingest of worker 1 ends with this step
BulkEnds == sess[1].op = "bulk" /\ sess[1].pc = "run" /\ sess'[1].pc = "idle"

\* the request that finished last was an ingest of batch, answered 200
JustIngested(batch) ==
    /\ log # <<>>
    /\ log[Len(log)].op = "bulk"
    /\ log[Len(log)].status = "200"
    /\ log[Len(log)].req = batch

\* C4: an ingest of the batch that was ingested just before it is answered
\* 200 like the first and leaves every column of every record as the first
\* ingest left it, and adds no record.
C4_RetryIdempotent ==
    [][(BulkEnds /\ JustIngested(sess[1].arg))
           => /\ articles' = articles
              /\ resp'[1].status = "200"]_vars

\* a batch of two items was ingested twice in a row, and each time both
\* items updated a record
C4_Witness ==
    /\ Len(log) = 2
    /\ log[1].op = "bulk" /\ log[2].op = "bulk"
    /\ log[1].req = log[2].req
    /\ log[1].status = "200" /\ log[2].status = "200"
    /\ log[1].updated = 2 /\ log[2].updated = 2

\* C5: no bulk ingest ends in the error of a unique constraint; the conflict
\* is resolved inside the call.
C5_NoConflictError ==
    \A i \in DOMAIN log :
        log[i].op = "bulk" => log[i].error # "IntegrityError"

General == <<"g", "e", "n", "e", "r", "a", "l">>

\* C6: a record's category that is set and is not "general" is changed by no
\* later ingest or enrichment run.
C6_CategoryKept ==
    [][\A k \in DOMAIN articles :
           (Truthy(articles[k].category) /\ articles[k].category # General)
               => articles'[k].category = articles[k].category]_vars

\* an ingest with the category hint "world" has updated the record of U1,
\* whose category is still "local"
C6_Witness ==
    /\ log # <<>>
    /\ log[Len(log)].op = "bulk"
    /\ log[Len(log)].status = "200"
    /\ \E n \in DOMAIN log[Len(log)].req : log[Len(log)].req[n] = ItemA
    /\ articles[1].url = U1
    /\ articles[1].title = ItemFields[ItemA].title
    /\ articles[1].category = <<"l", "o", "c", "a", "l">>

Advisory == {"country", "lang"}

\* C7 as stated: the only change country and lang undergo is from absent to
\* a value.
C7_OnlyStrengthened ==
    [][\A k \in DOMAIN articles : \A c \in Advisory :
           articles'[k][c] # articles[k][c]
               => ~Truthy(articles[k][c]) /\ Truthy(articles'[k][c])]_vars

\* C7, amended: a country or lang that is present is never reset to absent
\* (a later ingest or enrichment run may replace it by another value).
C7_NeverWeakened ==
    [][\A k \in DOMAIN articles : \A c \in Advisory :
           Truthy(articles[k][c]) => Truthy(articles'[k][c])]_vars

\* the record of U1 got country "hk" and lang "en" from a first ingest and
\* carries "us" and "fr" after a second
C7_Witness ==
    /\ Len(log) = 2
    /\ log[1].op = "bulk" /\ log[1].status = "200" /\ log[1].req = <<ItemA>>
    /\ log[2].op = "bulk" /\ log[2].status = "200" /\ log[2].req = <<ItemB>>
    /\ articles[1].country = <<"u", "s">>
    /\ articles[1].lang = <<"f", "r">>

\* C8: every bulk ingest of a non-empty batch is answered 200 with
\* created + updated equal to the number of its items whose trimmed title
\* and url are both non-empty.
C8_SkipsAndCounts ==
    \A i \in DOMAIN log :
        (log[i].op = "bulk" /\ log[i].req # <<>>)
            => /\ log[i].status = "200"
               /\ log[i].created + log[i].updated
                      = Cardinality({n \in DOMAIN log[i].req : Valid(log[i].req[n])})

(***************************************************************************)
(* Properties of the crawler                                               *)
(***************************************************************************)
\* parse_feed has returned and every call of _fetch_content it made failed
AllStagesFailed == pf.pc = "done" /\ fetches > 0 /\ pf.failures = fetches

\* the records the parse_feed call has appended to FAILED
Appended == SubSeq(FAILED, pf.base + 1, Len(FAILED))

\* C9 as stated: a parse_feed call in which every stage failed returns an
\* empty list and has added exactly one record to FAILED.
C9_OneRecord ==
    AllStagesFailed => pf.items = <<>> /\ Len(Appended) = 1

\* C9, amended: a parse_feed call in which every stage failed returns an
\* empty list and has added one record for each failed call of
\* _fetch_content (at least three) and, after them, exactly one no_entries
\* record for the descriptor's url.
C9_RecordPerFetch ==
    AllStagesFailed =>
        /\ pf.items = <<>>
        /\ pf.failures >= 3
        /\ Len(Appended) = pf.failures + 1
        /\ Appended[Len(Appended)] = no_entries(pf.feed_conf)
        /\ \A n \in 1..(Len(Appended) - 1) : Appended[n].reason # "no_entries"

\* every stage failed for a descriptor with a candidate page: four calls
C9_Witness == AllStagesFailed /\ fetches = 4 /\ Len(Appended) = 5

\* C10: a call of _fetch_content returns to its caller; it has either
\* returned bytes and appended nothing to FAILED, or returned None and
\* appended exactly one record {url, reason}, for the url it was called with.
C10_FetchRecordsOnce ==
    [][fetches' = fetches + 1
           => /\ pf'.pc = pf.then
              /\ \/ pf'.content.ok /\ FAILED' = FAILED
                 \/ /\ pf'.content = NoBytes
                    /\ Len(FAILED') = Len(FAILED) + 1
                    /\ SubSeq(FAILED', 1, Len(FAILED)) = FAILED
                    /\ DOMAIN FAILED'[Len(FAILED')] = {"url", "reason"}
                    /\ FAILED'[Len(FAILED')].url = pf.url]_vars

\* a call has failed after the retry and the alternate of its host:
\* three requests, one record
C10_Witness ==
    /\ pf.pc = "primary"
    /\ pf.content = NoBytes
    /\ Len(pf.gets) = 3
    /\ Len(Appended) = 1
    /\ Appended[1] = [url |-> pf.feed_conf.url, reason |-> "http_error:404"]

(***************************************************************************)
(* Properties of the tasks and the scheduler                               *)
(***************************************************************************)
\* the task with this id raises on every execution
AlwaysFails(id) == tasks[id].url \in raising

\* C11 as stated: a feed fetch task whose every execution fails is executed
\* at most 5 times in total, an article enrichment task at most 3 times.
C11_AtMostMaxRetriesRuns ==
    \A id \in DOMAIN tasks :
        AlwaysFails(id) => tasks[id].runs <= max_retries(tasks[id].task)

\* An execution that fails takes nothing from the others: every other
\* message is still waiting, every other task is as it was, and the
\* scheduler is where it was
FailureIsolated ==
    \A id \in DOMAIN tasks :
        (AlwaysFails(id) /\ tasks'[id].runs = tasks[id].runs + 1) =>
            /\ cycle' = cycle
            /\ \A m \in queue : m.id # id => m \in queue'
            /\ \A o \in DOMAIN tasks : o # id => tasks'[o] = tasks[o]

\* an always-failing task: its executions are bounded by max_retries + 1; once
\* it has failed for good none of its messages is waiting
FailingBounded ==
    \A id \in DOMAIN tasks :
        AlwaysFails(id) =>
            /\ tasks[id].runs <= max_retries(tasks[id].task) + 1
            /\ tasks[id].state = "FAILURE" =>
                   /\ tasks[id].runs = max_retries(tasks[id].task) + 1
                   /\ \A m \in queue : m.id # id

\* a task that has failed for good is never executed again
DroppedStays ==
    \A id \in DOMAIN tasks :
        tasks[id].state = "FAILURE" =>
            /\ tasks'[id].runs = tasks[id].runs
            /\ tasks'[id].state = "FAILURE"

\* C11 (amended): a feed fetch task whose every execution fails with an
\* unhandled error is executed at most 6 times in total, one execution and
\* 5 retries (an article enrichment task at most 4 times, one execution and
\* 3 retries), after which it is dropped and never executed again, and its
\* failure never prevents the scheduler or any other task from running.
C11_RetriesBounded ==
    /\ []FailingBounded
    /\ [][DroppedStays /\ FailureIsolated]_vars

\* C11 witness: a feed fetch task and an article enrichment task have both
\* been dropped after their last retry, a task enqueued after the failing
\* feed task has succeeded, and the scheduler has finished its cycle.
C11_Witness ==
    /\ cycle.pc = "done"
    /\ \E f, a, o \in DOMAIN tasks :
           /\ tasks[f].task = "fetch_feed" /\ tasks[f].state = "FAILURE"
           /\ tasks[f].runs = FeedMaxRetries + 1
           /\ tasks[a].task = "fetch_article" /\ tasks[a].state = "FAILURE"
           /\ tasks[a].runs = ArticleMaxRetries + 1
           /\ o > f /\ tasks[o].state = "SUCCESS"

\* the tasks the current cycle has enqueued for a supplemental group
GroupTasks(group) ==
    {id \in DOMAIN tasks : tasks[id].cycle = cycle.n /\ tasks[id].origin = group.code}

\* every feed of the group has exactly one task of the current cycle
EachFeedOnce(group) ==
    /\ Cardinality(GroupTasks(group)) = Len(group.cfgs)
    /\ \A k \in DOMAIN group.cfgs :
           Cardinality({id \in GroupTasks(group) :
                           /\ tasks[id].task = "fetch_feed"
                           /\ tasks[id].url = group.cfgs[k].url}) = 1

\* the count the stats give for the group's code, 0 when the code is missing
CountOf(rows, group) ==
    IF \E k \in DOMAIN rows : rows[k].key = group_code(group.code)
    THEN (CHOOSE r \in {rows[k] : k \in DOMAIN rows} :
              r.key = group_code(group.code)).count
    ELSE 0

Quota(groups, rows, least) ==
    \A g \in DOMAIN groups :
        IF CountOf(rows, groups[g]) < least
        THEN EachFeedOnce(groups[g])
        ELSE GroupTasks(groups[g]) = {}

\* C12: in a scheduler cycle that has read the coverage stats, for every
\* supplemental group (country:<code> and lang:<code>): if the 24h count of
\* that code is below the threshold 20 (a code missing from the stats counts
\* as 0) every feed of the group is enqueued exactly once, and if the count
\* is at or above 20 no feed of the group is enqueued.
C12_QuotaBalanced ==
    (cycle.pc = "done" /\ cycle.stats.ok) =>
        /\ Quota(SUPPLEMENTAL_FEEDS, cycle.stats.by_country, 20)
        /\ Quota(SUPPLEMENTAL_FEEDS_LANG, cycle.stats.by_lang, 20)

\* C12 witness: the cycle is over with hk at count 5 and its 3-feed group
\* enqueued as exactly 3 supplemental tasks, gb missing from the stats and
\* its feed enqueued, fr at 19 and enqueued, es at 20 and not enqueued.
C12_Witness ==
    /\ cycle.pc = "done" /\ cycle.stats.ok
    /\ cycle.stats.by_country = << StatRow(<<"h", "k">>, 5) >>
    /\ cycle.stats.by_lang = << StatRow(<<"f", "r">>, 19), StatRow(<<"e", "s">>, 20) >>
    /\ Cardinality(GroupTasks(SUPPLEMENTAL_FEEDS[2])) = 3
    /\ Cardinality(GroupTasks(SUPPLEMENTAL_FEEDS[1])) = 1
    /\ Cardinality(GroupTasks(SUPPLEMENTAL_FEEDS_LANG[1])) = 1
    /\ GroupTasks(SUPPLEMENTAL_FEEDS_LANG[2]) = {}

\* the tasks the scheduler itself has enqueued in the current cycle
CycleTasks ==
    {id \in DOMAIN tasks : tasks[id].cycle = cycle.n /\ tasks[id].origin # <<"chain">>}

\* exactly one fetch task of the current cycle per entry of the primary list
PrimaryOnce ==
    \A k \in DOMAIN FEEDS :
        Cardinality({id \in CycleTasks :
                        /\ tasks[id].origin = <<"primary">>
                        /\ tasks[id].task = "fetch_feed"
                        /\ tasks[id].url = FEEDS[k].url}) = 1

\* C13: every scheduler cycle enqueues exactly one fetch-and-ingest task per
\* entry of the primary feed list, before and regardless of the outcome of
\* the coverage-stats read, and the value the cycle returns equals the total
\* number of tasks it enqueued (primary plus supplemental).
C13_PrimaryThenCount ==
    /\ cycle.pc \in {"country", "lang", "done"} =>
           /\ PrimaryOnce
           /\ Cardinality({id \in CycleTasks : tasks[id].origin = <<"primary">>})
                 = Len(FEEDS)
    /\ cycle.pc = "done" => cycle.count = Cardinality(CycleTasks)

\* C13 witness: a cycle has returned 7 after enqueuing the primary feeds and
\* five supplemental ones, and some of its tasks have already been executed.
C13_Witness ==
    /\ cycle.pc = "done" /\ cycle.stats.ok
    /\ PrimaryOnce
    /\ cycle.count = Len(FEEDS) + 5
    /\ Cardinality(CycleTasks) = cycle.count
    /\ \E id \in CycleTasks : tasks[id].runs > 0

(***************************************************************************)
(* Properties of the content enrichment                                    *)
(***************************************************************************)
\* worker w is at the commit of an enrichment run
Enriching(w) == sess[w].op = "fetch_article" /\ sess[w].pc = "run"

\* the step is the commit of the enrichment run of worker w
EnrichmentCommits(w) == Enriching(w) /\ sess'[w] = NoSession

\* the pages whose text makes the run of worker w what it is
PagesOf(w) ==
    {p \in Pages :
        /\ p.ok
        /\ fetch_article_body(NewSession("fetch_article", sess[w].arg), articles,
                              sess[w].arg, p.text) = sess[w]}

\* the record the run of worker w works on
TargetOf(w) == sess[w].ret

\* C14: content enrichment is idempotent: running the enrichment task again
\* for the same url against the unchanged page, right after a run, leaves
\* every record (content, content fingerprint, lang and every other field)
\* equal to what it was after the first run.
C14_EnrichmentIdempotent ==
    [][\A w \in Workers :
          EnrichmentCommits(w) =>
              /\ PagesOf(w) # {}
              /\ \A p \in PagesOf(w) :
                     fetch_article_run(articles', sess[w].arg, p.text).rows = articles']_vars

\* C14 witness: two enrichment runs for the same url have committed one after
\* the other and the record holds the extracted content.
C14_Witness ==
    /\ Len(log) = 2
    /\ log[1].op = "fetch_article" /\ log[2].op = "fetch_article"
    /\ log[1].req = log[2].req
    /\ log[1].updated = 1 /\ log[2].updated = 1
    /\ \E k \in DOMAIN articles :
           /\ articles[k].url = log[1].req
           /\ Truthy(articles[k].content)
           /\ articles[k].content_simhash = simhash_hex(articles[k].content)

\* the url_hash the run of worker w looks for
HashOf(w) == url_hash(canonicalize_url(sess[w].arg))

\* the target of the run of worker w has the url_hash, or no record has it
\* and the target has the url
TargetByHashThenUrl(w) ==
    /\ TargetOf(w) \in DOMAIN articles
    /\ IF \E j \in DOMAIN articles : articles[j].url_hash = HashOf(w)
       THEN articles[TargetOf(w)].url_hash = HashOf(w)
       ELSE articles[TargetOf(w)].url = sess[w].arg

\* what a committed run with the extracted text has made of record a
Overwritten(a, b, text) ==
    IF text = <<>>
    THEN /\ b.content = a.content
         /\ b.content_simhash = a.content_simhash
         /\ b.lang = a.lang
    ELSE /\ b.content = text
         /\ b.content_simhash = simhash_hex(text)
         /\ b.lang = IF Truthy(detect_lang(text)) THEN detect_lang(text) ELSE a.lang

\* C15: the enrichment task finds its target record by url_hash and only if
\* none matches by url, and it overwrites content and content fingerprint
\* only when the extracted text is non-empty and lang only when a language
\* was produced; when extraction yields nothing, the record's content,
\* fingerprint and lang keep their previous values.
C15_TargetAndOverwrite ==
    [][\A w \in Workers :
          EnrichmentCommits(w) =>
              /\ TargetByHashThenUrl(w)
              /\ PagesOf(w) # {}
              /\ resp'[w].status = "returned" =>
                     \A p \in PagesOf(w) :
                         Overwritten(articles[TargetOf(w)], articles'[TargetOf(w)], p.text)]_vars

\* C15 witness: a run for U1 has stored content on the record of U1, and a
\* later run for the other spelling of the url has found that record by its
\* url_hash and left the record stored under that spelling untouched.
C15_Witness ==
    /\ Len(log) = 2
    /\ log[1].op = "fetch_article" /\ log[1].req = U1 /\ log[1].updated = 1
    /\ log[2].op = "fetch_article" /\ log[2].req = U1s /\ log[2].updated = 1
    /\ Len(articles) = 2
    /\ articles[1].url = U1 /\ articles[1].url_hash = url_hash(canonicalize_url(U1s))
    /\ Truthy(articles[1].content)
    /\ articles[2].url = U1s /\ ~Truthy(articles[2].url_hash)
    /\ ~Truthy(articles[2].content)

\* the step ends an enrichment run (it returned or raised)
EnrichmentEnds ==
    /\ Len(log') = Len(log) + 1
    /\ log'[Len(log')].op = "fetch_article"

\* the step leaves every record but the target of worker w as it was, creates
\* and deletes none, and changes the target in the columns of cols at most
FrameOf(w, cols) ==
    /\ Len(articles') = Len(articles)
    /\ \A k \in DOMAIN articles :
           IF Enriching(w) /\ k = TargetOf(w)
           THEN \A c \in ArticleColumns \ cols : articles'[k][c] = articles[k][c]
           ELSE articles'[k] = articles[k]

\* C16 as stated: an enrichment run changes no field of its target record
\* other than content, content fingerprint and lang, changes no other
\* record, and never creates or deletes a record.
C16_OnlyContentFields ==
    [][EnrichmentEnds =>
          \A w \in Workers :
              log'[Len(log')].w = w =>
                  FrameOf(w, {"content", "content_simhash", "lang"})]_vars

\* a committed run has stored the canonical form of its url and the hash of it
IdentityStored(w) ==
    (Enriching(w) /\ resp'[w].status = "returned") =>
        /\ articles'[TargetOf(w)].url_canonical = canonicalize_url(sess[w].arg)
        /\ articles'[TargetOf(w)].url_hash = HashOf(w)

\* C16 (amended): an enrichment run changes no field of its target record
\* other than content, content fingerprint, lang and the stored canonical url
\* and url hash (which it sets to those of the task's url), changes no other
\* record, and never creates or deletes a record (a url with no record is a
\* no-op).
C16_OnlyEnrichedFields ==
    [][EnrichmentEnds =>
          \A w \in Workers :
              log'[Len(log')].w = w =>
                  /\ FrameOf(w, {"content", "content_simhash", "lang",
                                 "url_canonical", "url_hash"})
                  /\ IdentityStored(w)
                  /\ ~Enriching(w) => articles' = articles]_vars

\* C16 witness: one run has stored content, fingerprint, lang, canonical url
\* and url hash on a record that had none of them, and the other record is
\* the row it was.
C16_Witness ==
    /\ Len(log) = 1
    /\ log[1].op = "fetch_article" /\ log[1].req = U1 /\ log[1].updated = 1
    /\ Len(articles) = 2
    /\ articles[1] = [OldRow(1, U1, <<"o", "l", "d">>, <<"l", "o", "c", "a", "l">>) EXCEPT
                         !.url_canonical = U1,
                         !.url_hash = url_hash(U1),
                         !.content = <<"n", "e", "w", "s">>,
                         !.content_simhash = simhash_hex(<<"n", "e", "w", "s">>),
                         !.lang = <<"e", "n">>]
    /\ articles[2] = OldRow(2, U1s, <<"o", "l", "d">>, None)

(***************************************************************************)
(* Properties of the url functions                                         *)
(***************************************************************************)
\* C17: canonicalize_url is idempotent: for every url u,
\* canonicalize(canonicalize(u)) = canonicalize(u).
C17_Idempotent ==
    norm.again # Unset => norm.again = norm.canonical

\* the key of a query parameter starts, in any case, with utm_, fbclid or gclid
HasTrackingKey(kv) ==
    \/ startswith(lower(kv[1]), <<"u", "t", "m", "_">>)
    \/ startswith(lower(kv[1]), <<"f", "b", "c", "l", "i", "d">>)
    \/ startswith(lower(kv[1]), <<"g", "c", "l", "i", "d">>)

KeepsParameter(kv) == ~HasTrackingKey(kv)

\* the parameters of q in the order given by the permutation f
Permuted(q, f) == [i \in DOMAIN q |-> q[f[i]]]

\* the parameters of q sorted by key, then by value
SortedByKeyThenValue(q) ==
    IF q = <<>> THEN <<>>
    ELSE Permuted(q, CHOOSE f \in Permutations(DOMAIN q) :
                        \A i, j \in DOMAIN q :
                            i < j => ~PairLess(q[f[j]], q[f[i]]))

\* the path without its last character when that is a "/"
WithoutOneSlash(path) ==
    IF path # <<>> /\ path[Len(path)] = "/" THEN SubSeq(path, 1, Len(path) - 1)
    ELSE path

\* the path without the "/" characters at its end
RECURSIVE WithoutSlashes(_)
WithoutSlashes(path) ==
    IF path # <<>> /\ path[Len(path)] = "/"
    THEN WithoutSlashes(SubSeq(path, 1, Len(path) - 1))
    ELSE path

\* the url written from its parts, without a fragment
Emitted(scheme, host, path, params) ==
    (IF scheme # <<>> THEN scheme \o <<":">> ELSE <<>>)
    \o (IF host # <<>> THEN <<"/", "/">> \o host ELSE <<>>)
    \o path
    \o (IF params # <<>> THEN <<"?">> \o urlencode(params) ELSE <<>>)

\* the canonical form of url, given what is left of the path
CanonicalWith(url, path) ==
    Emitted(urlsplit(url).scheme, lower(urlsplit(url).netloc), path,
            SortedByKeyThenValue(SelectSeq(parse_qsl(urlsplit(url).query),
                                           KeepsParameter)))

\* C18 as stated: canonicalize_url lowercases the host, strips a single
\* trailing "/" from the path, drops the fragment, removes every query
\* parameter whose key starts (case-insensitively) with utm_, fbclid or
\* gclid, and emits the remaining parameters sorted by key then value,
\* leaving path and parameter case untouched.
C18_SingleSlash ==
    norm.canonical # Unset =>
        norm.canonical = CanonicalWith(norm.url, WithoutOneSlash(urlsplit(norm.url).path))

\* C18 (amended): canonicalize_url lowercases the host, strips every
\* trailing "/" from the path, drops the fragment, removes every query
\* parameter whose key starts (case-insensitively) with utm_, fbclid or
\* gclid, and emits the remaining parameters sorted by key then value,
\* leaving path and parameter case untouched.
C18_EverySlash ==
    norm.canonical # Unset =>
        norm.canonical = CanonicalWith(norm.url, WithoutSlashes(urlsplit(norm.url).path))

\* C18 witness: "http://News.Example.com/Story/?utm_campaign=abc&Id=5&ref=1"
\* has given "http://news.example.com/Story?Id=5&ref=1".
C18_Witness ==
    /\ norm.url = <<"h", "t", "t", "p", ":", "/", "/", "N", "e", "w", "s", ".", "E", "x", "a", "m", "p", "l", "e", ".", "c", "o", "m", "/", "S", "t", "o", "r", "y", "/", "?", "u", "t", "m", "_", "c", "a", "m", "p", "a", "i", "g", "n", "=", "a", "b", "c", "&", "I", "d", "=", "5", "&", "r", "e", "f", "=", "1">>
    /\ norm.canonical = <<"h", "t", "t", "p", ":", "/", "/", "n", "e", "w", "s", ".", "e", "x", "a", "m", "p", "l", "e", ".", "c", "o", "m", "/", "S", "t", "o", "r", "y", "?", "I", "d", "=", "5", "&", "r", "e", "f", "=", "1">>

(***************************************************************************)
(* Properties of the stored url fields                                     *)
(***************************************************************************)
\* C19: in every reachable store state each record that has a url_hash
\* satisfies url_hash = url_hash(url_canonical) with url_canonical =
\* canonicalize_url(url), so that ingests of the same url that differ in
\* title, summary or source store the same hash.
C19_HashOfCanonical ==
    \A k \in DOMAIN articles :
        Truthy(articles[k].url_hash) =>
            /\ articles[k].url_canonical = canonicalize_url(articles[k].url)
            /\ articles[k].url_hash = url_hash(articles[k].url_canonical)

\* C19 witness: two ingests of the same url with different title, summary
\* and source have updated the record one after the other, and the record
\* carries the hash of its canonical URL.
C19_Witness ==
    /\ Len(log) = 2
    /\ log[1].op = "bulk" /\ log[1].req = <<ItemA>> /\ log[1].updated = 1
    /\ log[2].op = "bulk" /\ log[2].req = <<ItemB>> /\ log[2].updated = 1
    /\ ItemFields[ItemA].url = ItemFields[ItemB].url
    /\ ItemFields[ItemA].title # ItemFields[ItemB].title
    /\ \E k \in DOMAIN articles :
           /\ articles[k].url = ItemFields[ItemA].url
           /\ articles[k].title = ItemFields[ItemB].title
           /\ articles[k].url_hash = url_hash(canonicalize_url(ItemFields[ItemA].url))

\* the host ends with a suffix of the suffix map
SuffixMatches(host) == {i \in DOMAIN suffix_map : endswith(host, suffix_map[i][1])}

\* the last label of a host of more than one label, else nothing
LastLabel(host) ==
    IF Contains(host, <<".">>) THEN From(host, rfind(host, <<".">>) + 1) ELSE <<>>

\* the country of a host by the suffix map, then by the TLD map restricted to
\* the labels of tlds
CountryBySuffixThenTld(host, tlds) ==
    IF SuffixMatches(host) # {}
    THEN suffix_map[CHOOSE i \in SuffixMatches(host) : TRUE][2]
    ELSE IF LastLabel(host) \in tlds
    THEN (IF LastLabel(host) = <<"u", "k">> THEN <<"g", "b">> ELSE LastLabel(host))
    ELSE None

\* what the claim says of the country returned for a url with this host
CountryAsInferred(host, country, tlds) ==
    /\ country = CountryBySuffixThenTld(host, tlds)
    /\ endswith(host, <<".", "c", "o", ".", "u", "k">>) => country = <<"g", "b">>
    /\ host = <<"e", "x", "a", "m", "p", "l", "e", ".", "c", "o", "m">> => country = None

\* both functions on a url with this host
BothAsInferred(host) ==
    /\ norm.country # Unset => CountryAsInferred(host, norm.country, tld_keys)
    /\ norm.feed_country # Unset =>
           CountryAsInferred(host, norm.feed_country, tld_keys \ {<<"g", "b">>})

\* C20: the country inference checks the multi-label suffix map before the
\* single-label TLD map and returns absent when neither matches: a host
\* ending in .co.uk gives "gb", a host whose last label is not in the TLD map
\* (example.com) gives absent, and an absent url gives absent; for
\* infer_country_from_url and for the infer_country of parse_feed, each with
\* its own TLD map.
C20_InferCountry ==
    IF norm.url = None
    THEN norm.country \in {Unset, None} /\ norm.feed_country \in {Unset, None}
    ELSE (norm.country # Unset \/ norm.feed_country # Unset) =>
             BothAsInferred(hostname(norm.url))

\* C20 witness: both functions have answered "gb" for a url of
\* www.bbc.co.uk.
C20_Witness ==
    /\ norm.url = <<"h", "t", "t", "p", "s", ":", "/", "/", "w", "w", "w", ".", "b", "b", "c", ".", "c", "o", ".", "u", "k", "/", "S", "t", "o", "r", "y", "/", "?", "b", "=", "2", "&", "a", "=", "1">>
    /\ norm.country = <<"g", "b">>
    /\ norm.feed_country = <<"g", "b">>

(***************************************************************************)
(* Properties of the category rules                                        *)
(***************************************************************************)
\* the fixed priority order of the categories
Priority ==
    <<"technology", "finance", "economy", "politics", "health", "sports",
      "entertainment", "environment">>

PriorityOf(c) == CHOOSE i \in DOMAIN Priority : Priority[i] = c

\* the categories one of whose patterns matches the text, case ignored
Matching(text) ==
    {REGEXES[i].cat : i \in {k \in DOMAIN REGEXES :
        \E j \in DOMAIN REGEXES[k].patterns : search(REGEXES[k].patterns[j], lower(text))}}

\* C21: classify_categories returns exactly the categories that have a
\* matching pattern, each once, in the priority order technology, finance,
\* economy, politics, health, sports, entertainment, environment, whatever
\* the order in which they matched; the empty text gives the empty list, and
\* the sentence about a chip startup and inflation gives technology, economy
C21_PriorityOrder ==
    labels.cats # Unclassified =>
        /\ Range(labels.cats) = Matching(labels.text)
        /\ Range(labels.cats) \subseteq Range(Priority)
        /\ \A i, j \in DOMAIN labels.cats :
               i < j => PriorityOf(labels.cats[i]) < PriorityOf(labels.cats[j])
        /\ labels.text = <<>> => labels.cats = <<>>
        /\ labels.text = Sentence => labels.cats = <<"technology", "economy">>

\* a text whose economy pattern is tried, and matches, before its finance one
C21_Witness ==
    /\ labels.text = <<"i", "n", "f", "l", "a", "t", "i", "o", "n", " ", "B", "a", "n", "k", "s">>
    /\ labels.cats = <<"finance", "economy">>

(***************************************************************************)
(* Properties of the classification during ingest                          *)
(***************************************************************************)
\* the categories the rules of the create path find in the text given to the
\* classifier
RulesOn(text) == rule_cats(CreateRules, lower(text), 1, <<>>)

\* C22 (as stated): the learned classifier is consulted only for an item for
\* which no category rule matched
C22_OnlyWhenNoRuleMatched ==
    \A i \in DOMAIN ml.asked : RulesOn(ml.asked[i].text) = <<>>

\* the step is a call of the classifier, made for the item f that worker w
\* is at, and e is what the call was given and what followed from it
AskedFor(w, f, e) ==
    /\ sess[w].op = "bulk" /\ sess[w].pc = "run"
    /\ sess'[w] # sess[w]
    /\ f = ItemFields[sess[w].arg[sess[w].i + 1]]
    /\ ml'.asked = Append(ml.asked, e)

\* C22 (amended): during ingest the learned classifier is consulted only for
\* an item that carries no category of its own and whose url has no record,
\* whether or not a category rule matched; it is given the item's title and
\* summary, and its answer goes to the single-valued category of the new
\* record only ("general" when it answers nothing or raises), never to the
\* multi-label categories
C22_OnlyWithoutCategory ==
    [][ml' # ml =>
          \E w \in Workers, it \in Items, e \in {ml'.asked[Len(ml'.asked)]} :
              /\ AskedFor(w, ItemFields[it], e)
              /\ ml.present
              /\ Valid(it)
              /\ strip(Or(it.category, <<>>)) = <<>>
              /\ RecordsOf(ItemFields[it].url) = {}
              /\ e.text = ItemFields[it].title \o <<"\n">> \o Or(ItemFields[it].summary, <<>>)
              /\ e.category = (IF e.out \in {None, Raised} THEN general ELSE e.out)
              /\ e.out \notin {None, Raised} =>
                     /\ ~Contains(e.categories, e.out)
                     /\ \A o \in MLOutcomes :
                            e.categories = bulk_item_asks(ml, articles, ItemFields[it], o)
                                               .asked[Len(ml'.asked)].categories]_vars

\* the classifier has been asked about an item in which rules matched, and
\* has answered with a label
C22_Witness ==
    \E i \in DOMAIN ml.asked :
        /\ RulesOn(ml.asked[i].text) # <<>>
        /\ ml.asked[i].out \notin {None, Raised}
        /\ ml.asked[i].category = ml.asked[i].out

\* the labels the learned classifier can answer with
ClassifierLabels == MLOutcomes \ {None, Raised}

\* C24: the category of a record created by ingest is the item's own category
\* when it has one, else what the learned classifier answers, else "general";
\* it is never empty, and an ingest does not fail because the classifier is
\* absent, answers nothing or raises: the record then has "general"
C24_CategoryResolved ==
    \A j \in DOMAIN log :
        (SingleCreate(log[j]) /\ j = Len(log)) =>
            /\ log[j].status = "200"
            /\ \E k \in RecordsOf(ItemFields[log[j].req[1]].url) :
                   /\ Truthy(articles[k].category)
                   /\ Truthy(ItemFields[log[j].req[1]].category) =>
                          articles[k].category = ItemFields[log[j].req[1]].category
                   /\ ~Truthy(ItemFields[log[j].req[1]].category) =>
                          articles[k].category \in ClassifierLabels \cup {general}
                   /\ (~Truthy(ItemFields[log[j].req[1]].category) /\ ~ml.present) =>
                          articles[k].category = general

\* a finished bulk ingest of one valid item
SingleIngest(e) == e.op = "bulk" /\ Len(e.req) = 1 /\ Valid(e.req[1])

\* C30: after an ingest of an item for a url, the record of the url holds as
\* its multi-label categories the classification of the item's title and
\* summary, the same whether the ingest created the record or updated it; an
\* update replaces the categories stored before
C30_CategoriesRefreshed ==
    (log # <<>> /\ SingleIngest(log[Len(log)])) =>
        /\ RecordsOf(ItemFields[log[Len(log)].req[1]].url) # {}
        /\ \A k \in RecordsOf(ItemFields[log[Len(log)].req[1]].url) :
               articles[k].categories = ItemFields[log[Len(log)].req[1]].categories_str

(***************************************************************************)
(* Properties of parse_feed and the fetcher                                *)
(***************************************************************************)
\* C23: whenever parse_feed returns an empty list, the call has appended a
\* no_entries record for the descriptor's url to FAILED
C23_EmptyIsRecorded ==
    (pf.pc = "done" /\ pf.items = <<>>) =>
        \E n \in DOMAIN Appended : Appended[n] = no_entries(pf.feed_conf)

\* the pages on which the fetcher's alternate-feed list applies to the host
\* of the descriptor
PagesOfHost(feed_conf) == alternates(hostname(feed_conf.url))

\* C27: when the HTML fallback starts (structured parsing and rediscovery
\* have given nothing), discovery has been attempted on every alternate page
\* of every ALT_FEEDS entry that applies to the descriptor's host, as
\* timesofisrael.com applies to www.timesofisrael.com
C27_CandidatesTried ==
    (pf.then = "html" /\ PagesOfHost(pf.feed_conf) # <<>>) =>
        /\ pf.stage = "candidate"
        /\ pf.cand = Len(PagesOfHost(pf.feed_conf))

\* the country of an item by the descriptor's hint, then the entry's link,
\* then the descriptor's url
ResolvedCountry(feed_conf, link) ==
    IF Truthy(feed_conf.country) THEN feed_conf.country
    ELSE IF Truthy(infer_country(link)) THEN infer_country(link)
    ELSE IF Truthy(infer_country(feed_conf.url)) THEN infer_country(feed_conf.url)
    ELSE None

\* C28: every item parse_feed returns from a parsed feed, the one at the
\* descriptor's url or a rediscovered one, has as country the descriptor's
\* hint if there is one, else the country inferred from the entry's link,
\* else the one inferred from the descriptor's url, else none
C28_CountryResolved ==
    [][(pf.pc \in {"primary", "alt_feed"} /\ pf'.pc = "done") =>
          \A i \in DOMAIN pf'.items :
              pf'.items[i].country =
                  ResolvedCountry(pf.feed_conf, pf.content.entries[i].link)]_vars

\* the requests g of a call for a host with the alternates alts are in order
\* and end with the first success
ChainInOrder(g, alts) ==
    /\ g[1].agent = "default"
    /\ \A i \in DOMAIN g : i < Len(g) => g[i].answer # "ok"
    /\ Len(g) >= 2 =>
           /\ g[1].answer = "http" /\ g[1].code \in {401, 403, 404}
           /\ g[2].url = g[1].url /\ g[2].agent = "other"
    /\ \A i \in 3..Len(g) : i - 2 <= Len(alts) /\ g[i].url = alts[i - 2]
    /\ (g[1].answer = "http" /\ g[1].code \in {401, 403, 404}) => Len(g) >= 2
    /\ (Len(g) >= 2 /\ g[Len(g)].answer # "ok") => Len(g) = 2 + Len(alts)

\* C25: the requests of a call of _fetch_content are made in order and end
\* with the first success: the GET with the other User-Agent is made once,
\* and only after the first GET was answered 401, 403 or 404; the alternates
\* of the host are requested in their listed order, only after that second
\* GET failed too; no request follows one that succeeded
C25_ChainInOrder ==
    Len(pf.gets) >= 1 =>
        ChainInOrder(pf.gets,
                     IF Len(pf.gets) = 1 THEN <<>>
                     ELSE alternates(hostname(pf.gets[1].url)))

\* C25 witness: the first GET was answered 404, the second failed, and the
\* alternate of the host has answered with a body
C25_Witness ==
    /\ Len(pf.gets) = 3
    /\ pf.gets[1].code = 404
    /\ pf.gets[2].answer # "ok"
    /\ pf.gets[3].answer = "ok"
    /\ pf.gets[3].url # pf.gets[1].url
    /\ pf.content.ok

\* The stage a parse_feed call is in: 1 the parse of the feed at the
\* descriptor's url, 2 the rediscovery on that url, 3 the discovery on the
\* candidate pages of the host, 4 the HTML fallback; 0 before the call and 5
\* after it
StageOf(p) ==
    IF p.pc = "idle" THEN 0
    ELSE IF p.pc = "done" THEN 5
    ELSE IF p.then = "primary" THEN 1
    ELSE IF p.then = "html" THEN 4
    ELSE IF p.stage = "rediscover" THEN 2
    ELSE 3

\* the entries feedparser finds in the bytes just fetched
EntriesOf(p) == IF HasBytes(p.content) THEN p.content.entries ELSE <<>>

\* the items the stage in progress has produced, at the step that ends it
Produced(p) ==
    IF p.pc = "primary" THEN primary_items(p.feed_conf, EntriesOf(p))
    ELSE IF p.pc = "alt_feed" THEN alt_items(p.feed_conf, EntriesOf(p))
    ELSE IF p.pc = "html" /\ HasBytes(p.content)
    THEN simple_html_to_items(p.content, p.feed_conf)
    ELSE <<>>

\* a step of the call in stage a that leaves it in stage b
StageStep(a, b) ==
    /\ pf'.feed_conf = pf.feed_conf
    /\ a <= b
    /\ b \in {a, a + 1, 5} \/ (a = 2 /\ b = 4 /\ candidates(hostname(pf.feed_conf.url)) = <<>>)
    /\ b < 5 => pf'.items = <<>>
    /\ (a < b /\ b < 5) => Produced(pf) = <<>>
    /\ (b = 5 /\ a < 4) => pf'.items = Produced(pf) /\ pf'.items # <<>>
    /\ (b = 5 /\ a = 4) => pf'.items = Produced(pf)
    /\ (a = 3 /\ b = 3 /\ pf'.cand # pf.cand) =>
           pf'.cand = pf.cand + 1 /\ Produced(pf) = <<>>
    /\ (a = 2 /\ b = 3) => pf'.cand = 1

\* C26: parse_feed goes through its stages in the order parse of the feed,
\* rediscovery on the descriptor's url, discovery on the candidate pages of
\* the host, HTML fallback; a later stage starts only when the stages before
\* it produced no item, and the list returned is the one of the first stage
\* that produced an item
C26_StagesInOrder ==
    [][(pf.pc # "idle" /\ pf' # pf) => StageStep(StageOf(pf), StageOf(pf'))]_vars

\* C26 witness: the feed and the rediscovery gave nothing and the feed
\* discovered on the candidate page of the host gave the items returned
C26_Witness ==
    /\ pf.pc = "done"
    /\ pf.stage = "candidate"
    /\ pf.items # <<>>
    /\ fetches >= 4

(***************************************************************************)
(* Properties of the HTML fallback                                         *)
(***************************************************************************)
\* the anchors among the first window of the page's that have text and href
Usable(anchors, window) ==
    {k \in DOMAIN anchors :
        k <= window /\ strip(anchors[k].text) # <<>> /\ anchors[k].href # <<>>}

\* items are the first 20 usable anchors among the first window, in document
\* order, with the title cut at 200 characters and source, category and
\* country of the descriptor
Scraped(items, anchors, feed_conf, usable) ==
    /\ Len(items) <= 20
    /\ Len(items) = IF Cardinality(usable) < 20 THEN Cardinality(usable) ELSE 20
    /\ \A i \in DOMAIN items :
           \E k \in usable :
               /\ Cardinality({q \in usable : q <= k}) = i
               /\ LET text == strip(anchors[k].text)
                  IN  items[i].title =
                          SubSeq(text, 1, IF Len(text) < 200 THEN Len(text) ELSE 200)
               /\ items[i].source = feed_conf.source
               /\ items[i].category = feed_conf.category
               /\ items[i].country = feed_conf.country

OnlyItemFor(batch, n, a) ==
    /\ Valid(batch[n])
    /\ ItemFields[batch[n]].url = a.url
    /\ \A m \in DOMAIN batch :
           (Valid(batch[m]) /\ ItemFields[batch[m]].url = a.url) => m = n

\* the record b is the record a as an update by the fields f leaves its
\* title, summary, source, published_at and category
UpdatedBy(a, b, f) ==
    /\ b.title = f.title
    /\ b.summary = f.summary
    /\ b.source = f.source
    /\ b.published_at = (IF f.published_at # None THEN f.published_at
                         ELSE a.published_at)
    /\ b.category = (IF Truthy(a.category) THEN a.category ELSE f.category)

\* C31: an ingest that updates an existing record sets title, summary and
\* source to the incoming values unconditionally (an absent incoming summary
\* or source clears the stored one), sets published_at to the incoming value
\* only when one is present and leaves it unchanged otherwise, and sets
\* category only when the stored category is unset
C31_UpdateFrame ==
    [][(BulkEnds /\ resp'[1].status = "200") =>
          \A k \in DOMAIN articles : \A n \in DOMAIN sess[1].arg :
              OnlyItemFor(sess[1].arg, n, articles[k]) =>
                  UpdatedBy(articles[k], articles'[k],
                            ItemFields[sess[1].arg[n]])]_vars

\* C31 witness: the record of U1, which a first ingest gave the summary
\* "gdp" and no source or date, has after an ingest of an item without
\* summary no summary, the item's title, source and date, and the category
\* it had
C31_Witness ==
    /\ Len(log) = 2
    /\ log[1].op = "bulk" /\ log[1].status = "200" /\ log[1].req = <<ItemB>>
    /\ log[2].op = "bulk" /\ log[2].status = "200" /\ log[2].req = <<ItemA>>
    /\ articles[1].title = <<"b", "a", "n", "k">>
    /\ articles[1].summary = None
    /\ articles[1].source = ItemFields[ItemA].source
    /\ articles[1].published_at = ItemFields[ItemA].published_at
    /\ articles[1].published_at # None
    /\ articles[1].category = <<"l", "o", "c", "a", "l">>

\* the country of a record after an ingest of the fields f: the item's own,
\* else the one inferred from the item's url, else the one stored before
IngestCountry(f, stored) ==
    Or(f.incoming_country, Or(f.inferred_country, stored))

\* C32: on every ingest of an item, whether it creates the record or updates
\* it, the record of the item's url has afterwards as country the item's
\* explicit country, else the country inferred from the item's url, else the
\* value stored before (none for a record just created)
C32_CountryResolved ==
    [][(BulkEnds /\ Len(sess[1].arg) = 1 /\ Valid(sess[1].arg[1])) =>
          /\ resp'[1].status = "200"
          /\ \E k \in DOMAIN articles' :
                 /\ articles'[k].url = ItemFields[sess[1].arg[1]].url
                 /\ articles'[k].country =
                        IngestCountry(ItemFields[sess[1].arg[1]],
                                      IF k \in DOMAIN articles
                                      THEN articles[k].country ELSE None)]_vars

(***************************************************************************)
(* Atomicity of a bulk ingest                                              *)
(***************************************************************************)
\* C38: a bulk ingest is all-or-nothing: no step of a call that is not its
\* commit answered 200 changes the store, so a call that fails in its loop
\* or at its commit persists no item of the batch and leaves every record as
\* it was
C38_AllOrNothing ==
    [][(sess[1].op = "bulk" /\ resp'[1].status # "200") =>
          articles' = articles]_vars

\* C38 witness: a batch that updates the records of U1 and U1s has failed at
\* its commit on the uniqueness of url_hash, after the UPDATE of the first
\* record was flushed, and both records are as they were
C38_Witness ==
    /\ Len(log) = 1
    /\ log[1].op = "bulk" /\ log[1].status = "500"
    /\ log[1].error = "IntegrityError"
    /\ log[1].req = <<ItemA, ItemC>>
    /\ Len(articles) = 2
    /\ articles \in InitialStores

(***************************************************************************)
(* The scheduler cycle when the stats read fails                           *)
(***************************************************************************)
\* the cycle has returned and its read of the coverage stats had failed
StatsReadFailed == cycle.pc = "done" /\ ~cycle.stats.ok

\* C35: when the read of the coverage stats fails, the cycle raises nothing
\* and returns: every primary feed has been enqueued, once, no supplemental
\* feed has been enqueued, and the value returned is the number of tasks
\* enqueued, the number of primary feeds
C35_StatsFailureSwallowed ==
    /\ [](StatsReadFailed =>
             /\ PrimaryOnce
             /\ \A id \in CycleTasks : tasks[id].origin = <<"primary">>
             /\ cycle.count = Cardinality(CycleTasks)
             /\ cycle.count = Len(FEEDS))
    /\ [][(cycle.pc = "primary" /\ cycle'.pc # "primary" /\ ~cycle'.stats.ok) =>
              /\ cycle'.pc = "done"
              /\ tasks' = tasks /\ queue' = queue
              /\ cycle'.count = cycle.count]_vars

\* C35 witness: a cycle whose stats read failed has returned the number of
\* primary feeds, with one task per primary feed enqueued and one of them
\* executed already
C35_Witness ==
    /\ StatsReadFailed
    /\ cycle.count = Len(FEEDS)
    /\ Cardinality(CycleTasks) = Len(FEEDS)
    /\ \E id \in CycleTasks : tasks[id].runs > 0

(***************************************************************************)
(* The descriptor of a scheduled feed                                      *)
(***************************************************************************)
\* the items carry the source label and the category hint of the descriptor
\* and, when it has one, its country hint
CarryHints(items, feed_conf) ==
    \A i \in DOMAIN items :
        /\ items[i].source = feed_conf.source
        /\ items[i].category = feed_conf.category
        /\ Truthy(feed_conf.country) => items[i].country = feed_conf.country

\* C37: the fetch task the scheduler enqueues for a feed of the registry
\* parses the feed with the registry's descriptor: the items it builds from
\* the entries of the feed carry the descriptor's source label, category hint
\* and country hint
C37_RegistryDescriptor ==
    \A id \in DOMAIN tasks : \A k \in DOMAIN FEEDS :
        (/\ tasks[id].task = "fetch_feed"
         /\ tasks[id].origin = <<"primary">>
         /\ tasks[id].url = FEEDS[k].url
         /\ tasks[id].state = "SUCCESS") =>
            /\ task_conf(tasks[id].url) = FEEDS[k]
            /\ CarryHints(primary_items(task_conf(tasks[id].url), FeedBody.entries),
                          FEEDS[k])

(***************************************************************************)
(* The failure list of a crawl run                                         *)
(***************************************************************************)
\* the records appended to FAILED since the run in progress started
FailuresOfRun == SubSeq(FAILED, run.base + 1, Len(FAILED))

\* C33: the failure list a crawl run reports at its end holds exactly the
\* failures of the fetches made in that run, and none of an earlier run of
\* the process
C33_ReportOfRun ==
    run.pc = "done" => run.report = FailuresOfRun

(***************************************************************************)
(* The enrichment tasks a fetch task chains                                *)
(***************************************************************************)
\* the enrichment tasks enqueued by the step
Chained == {id \in DOMAIN tasks' \ DOMAIN tasks : tasks'[id].task = "fetch_article"}

\* the store holds a record for url, by its url or by the hash of its
\* canonical form
HasRecord(rows, url) ==
    \E k \in DOMAIN rows :
        \/ rows[k].url = url
        \/ rows[k].url_hash = url_hash(canonicalize_url(url))

\* C34: a fetch task enqueues an enrichment task for a url only after its
\* ingest of the batch has returned successfully, and every url it enqueues
\* has a record in the store at that moment; when the ingest raises, the
\* execution enqueues no enrichment task
C34_EnrichAfterIngest ==
    [][/\ \A id \in Chained :
              /\ resp'[1].op = "bulk" /\ resp'[1].status = "200"
              /\ HasRecord(articles', tasks'[id].url)
       /\ (resp'[1] # resp[1] /\ resp'[1].status # "200") => Chained = {}]_vars

(***************************************************************************)
(* Termination of a fetch task and of the scheduler cycle                  *)
(***************************************************************************)
\* the calls of _fetch_content a parse_feed call can make: the feed, the
\* fallback, and for the descriptor's url and each candidate page the page,
\* the probed paths and the feed discovered
MaxFetchCalls ==
    [c \in FeedConfs |->
        2 + (2 + Len(DiscoveryPaths)) * (1 + Len(candidates(hostname(c.url))))]

\* the requests one call of _fetch_content can make: two for the url and one
\* per alternate of the longest list
MaxGets == 2 + SetMax({Len(ALT_FEEDS[i].alts) : i \in DOMAIN ALT_FEEDS})

\* the longest list of candidate pages
MaxCands == SetMax({Len(ALT_FEEDS[i].alts) : i \in DOMAIN ALT_FEEDS})

\* the steps of one _discover_feed_from_html with the fetch of the feed it
\* finds: the page, the probed paths and the feed, each fetched and handled
DiscoverySteps == 2 * (2 + Len(DiscoveryPaths))

\* How far a parse_feed call has got: the fetch of the feed and its parse,
\* then the discovery on the descriptor's url, those on the candidate pages,
\* the fallback's fetch and scrape, the no_entries record, the return
Position(p) ==
    LET handled == IF p.pc = "fetch" THEN 0 ELSE 1
        round   == IF p.stage = "candidate" THEN p.cand ELSE 0
        within  == IF p.then = "disc_page" THEN 0
                   ELSE IF p.then = "disc_probe" THEN 2 * p.probe
                   ELSE DiscoverySteps - 2
        last    == 2 + DiscoverySteps * (1 + MaxCands)
    IN  IF p.pc = "done" THEN last + 3
        ELSE IF p.pc = "no_entries" THEN last + 2
        ELSE IF p.then = "html" THEN last + handled
        ELSE IF p.then = "primary" THEN handled
        ELSE 2 + DiscoverySteps * round + within + handled

\* the labels of a call in progress: each has a step that leaves it
Labels ==
    {"fetch", "primary", "disc_page", "disc_probe", "alt_feed", "html", "no_entries"}

\* C36: every execution of a fetch task ends: whatever the servers answer,
\* parse_feed makes a bounded number of _fetch_content calls, each of a
\* bounded number of requests with a bounded timeout, and every step takes
\* it further towards its return, which it reaches after a bounded number of
\* steps; and the scheduler cycle finishes its dispatch whether or not any
\* task it enqueued is ever executed
C36_Terminates ==
    /\ [](pf.pc \notin {"idle", "done"} =>
             /\ pf.pc \in Labels
             /\ fetches <= MaxFetchCalls[pf.feed_conf]
             /\ Len(pf.gets) <= MaxGets
             /\ \A i \in DOMAIN pf.gets : pf.gets[i].timeout <= GetTimeout)
    /\ [][(pf.pc # "idle" /\ pf' # pf) =>
              /\ Position(pf) < Position(pf')
              /\ Position(pf') <= 5 + DiscoverySteps * (1 + MaxCands)]_vars
    /\ (cycle.pc = "primary") ~> (cycle.pc = "done")

\* C36 witness: a parse_feed call for a host with a candidate page, every
\* request of which failed, has returned after its last fetch, the HTML
\* fallback's
C36_Witness ==
    /\ pf.pc = "done"
    /\ pf.items = <<>>
    /\ pf.stage = "candidate"
    /\ fetches >= 4
    /\ pf.failures = fetches

====
